---- MODULE Spec2Model ----
(***************************************************************************)
(* django-eveuniverse: the entity synchronisation engine of                *)
(* eveuniverse/managers.py over the model declarations of                  *)
(* eveuniverse/models.py and the deferred loader of eveuniverse/tasks.py.  *)
(*                                                                         *)
(* The store is modelled as one table per model class.  A row is a         *)
(* function from field names to values.  Every field value is an integer:  *)
(* ids are the Eve Online ids, None / SQL NULL is NULL, texts are integer  *)
(* codes with EMPTY standing for "", booleans are 0 / 1.  The              *)
(* last_updated column (auto_now, never part of esi_mapping) is not        *)
(* modelled.  A remote payload is a function from the keys it carries to   *)
(* their values, so that `key \in DOMAIN payload` is Python's              *)
(* `key in payload`.                                                       *)
(*                                                                         *)
(* EveStationService (a plain model with an automatic key) and the join    *)
(* table of EveStation.services are kept with the inline tables.           *)
(*                                                                         *)
(* One manager call is one atomic step.  The call's own sequence of        *)
(* effects (remote calls, row writes, job submissions) is kept in a log.   *)
(***************************************************************************)
EXTENDS Integers, Sequences, FiniteSets, Bags, TLC

VARIABLES
    db,         \* entity tables: model name -> (id -> row)
    inl,        \* inline tables: model name -> sequence of rows (auto pk = index)
    jobs,       \* bag of submitted, not yet executed load_eve_object jobs
    esi,        \* the remote dataset: endpoint path -> data
    settings,   \* the EVEUNIVERSE_LOAD_* flags of app_settings
    last,       \* the last step: operation, arguments, outcome, effect log
    run,        \* the deferred run under observation and the outcome of its blocking twin;
                \* for concurrent calls, the position and the local values of each
    cache       \* Django's cache: the routes and stargate edge sets of _shortest_path_to

vars == <<db, inl, jobs, esi, settings, last, run, cache>>

-----------------------------------------------------------------------------
(* Value encodings *)

NULL == -1
EMPTY == 0
Dummy == 1
NoError == "ok"

-----------------------------------------------------------------------------
(* Bounds *)

MaxDepth == 8
MaxJobs == 4
(* the batch ceiling of the name-resolution endpoint, scaled down *)
MaxBatch == 2

-----------------------------------------------------------------------------
(* models.py: field declarations.  Fld gives what Django's field object    *)
(* carries: its class, null=, whether a default is declared and which, and *)
(* the related model of a ForeignKey / OneToOneField.                      *)

Fld(name, cls, null, has_default, default, related) ==
    [name |-> name, cls |-> cls, null |-> null, has_default |-> has_default,
     default |-> default, related |-> related]

PkField == Fld("id", "PositiveIntegerField", FALSE, FALSE, NULL, "")
NameField == Fld("name", "CharField", FALSE, TRUE, EMPTY, "")
Position(n) == Fld(n, "FloatField", TRUE, TRUE, NULL, "")
Req(n, cls) == Fld(n, cls, FALSE, FALSE, NULL, "")
Opt(n, cls) == Fld(n, cls, TRUE, TRUE, NULL, "")
Txt(n, cls) == Fld(n, cls, FALSE, TRUE, EMPTY, "")
FkReq(n, related) == Fld(n, "ForeignKey", FALSE, FALSE, NULL, related)
FkOpt(n, related) == Fld(n, "ForeignKey", TRUE, TRUE, NULL, related)
OneToOneOpt(n, related) == Fld(n, "OneToOneField", TRUE, TRUE, NULL, related)

EveUniverseEntityModel == <<PkField, NameField>>

InlineModels == {"EveTypeDogmaAttribute", "EveTypeDogmaEffect", "EveDogmaEffectModifier"}

EntityModels ==
    {"EveAncestry", "EveAsteroidBelt", "EveBloodline", "EveCategory",
     "EveConstellation", "EveDogmaAttribute", "EveDogmaEffect", "EveEntity",
     "EveGraphic", "EveGroup", "EveMarketGroup", "EveMoon", "EvePlanet", "EveRace", "EveRegion",
     "EveSolarSystem", "EveStar", "EveStargate", "EveStation", "EveType", "EveUnit"}

(* the tables with an automatic key: the inline models, the station        *)
(* services and the join table of EveStation.services                      *)
AutoPkTables == InlineModels \cup {"EveStationService", "EveStation_services"}

Fields(model) ==
    CASE model = "EveAncestry" -> EveUniverseEntityModel \o
            <<FkReq("eve_bloodline", "EveBloodline"), Req("description", "TextField"),
              Opt("icon_id", "PositiveIntegerField"), Txt("short_description", "TextField")>>
      [] model = "EveAsteroidBelt" -> EveUniverseEntityModel \o
            <<FkReq("eve_planet", "EvePlanet"), Position("position_x")>>
      [] model = "EveBloodline" -> EveUniverseEntityModel \o
            <<FkOpt("eve_race", "EveRace"), FkReq("eve_ship_type", "EveType"),
              Req("description", "TextField")>>
      [] model = "EveCategory" -> EveUniverseEntityModel \o
            <<Req("published", "BooleanField")>>
      [] model = "EveConstellation" -> EveUniverseEntityModel \o
            <<FkReq("eve_region", "EveRegion"), Position("position_x")>>
      [] model = "EveDogmaAttribute" -> EveUniverseEntityModel \o
            <<FkOpt("eve_unit", "EveUnit"), Opt("default_value", "FloatField"),
              Txt("description", "TextField"), Opt("published", "BooleanField")>>
      [] model = "EveDogmaEffect" -> EveUniverseEntityModel \o
            <<Txt("description", "TextField"),
              FkOpt("discharge_attribute", "EveDogmaAttribute"),
              Opt("published", "BooleanField")>>
      [] model = "EveDogmaEffectModifier" ->
            <<Txt("domain", "CharField"), FkReq("eve_dogma_effect", "EveDogmaEffect"),
              Req("func", "CharField"), FkOpt("modified_attribute", "EveDogmaAttribute"),
              Opt("operator", "PositiveIntegerField")>>
      [] model = "EveEntity" -> EveUniverseEntityModel \o
            <<Opt("category", "CharField")>>
      [] model = "EveGraphic" -> EveUniverseEntityModel \o
            <<Txt("graphic_file", "CharField")>>
      [] model = "EveGroup" -> EveUniverseEntityModel \o
            <<FkReq("eve_category", "EveCategory"), Req("published", "BooleanField")>>
      [] model = "EveMarketGroup" -> EveUniverseEntityModel \o
            <<Req("description", "TextField"),
              FkOpt("parent_market_group", "EveMarketGroup")>>
      [] model = "EveMoon" -> EveUniverseEntityModel \o
            <<FkReq("eve_planet", "EvePlanet"), Position("position_x")>>
      [] model = "EvePlanet" -> EveUniverseEntityModel \o
            <<FkReq("eve_solar_system", "EveSolarSystem"), FkReq("eve_type", "EveType"),
              Position("position_x")>>
      [] model = "EveRace" -> EveUniverseEntityModel \o
            <<Req("alliance_id", "PositiveIntegerField"), Req("description", "TextField")>>
      [] model = "EveRegion" -> EveUniverseEntityModel \o
            <<Txt("description", "TextField")>>
      [] model = "EveSolarSystem" -> EveUniverseEntityModel \o
            <<FkReq("eve_constellation", "EveConstellation"),
              OneToOneOpt("eve_star", "EveStar"), Position("position_x"),
              Req("security_status", "FloatField")>>
      [] model = "EveStar" -> EveUniverseEntityModel \o
            <<FkReq("eve_type", "EveType"), Req("spectral_class", "CharField")>>
      [] model = "EveStargate" -> EveUniverseEntityModel \o
            <<OneToOneOpt("destination_eve_stargate", "EveStargate"),
              FkOpt("destination_eve_solar_system", "EveSolarSystem"),
              FkReq("eve_solar_system", "EveSolarSystem"), FkReq("eve_type", "EveType"),
              Position("position_x")>>
      [] model = "EveStation" -> EveUniverseEntityModel \o
            <<FkOpt("eve_race", "EveRace"), FkReq("eve_solar_system", "EveSolarSystem"),
              FkReq("eve_type", "EveType"), Req("max_dockable_ship_volume", "FloatField"),
              Opt("owner_id", "PositiveIntegerField"), Position("position_x")>>
      [] model = "EveType" -> EveUniverseEntityModel \o
            <<Opt("capacity", "FloatField"), FkReq("eve_group", "EveGroup"),
              FkOpt("eve_graphic", "EveGraphic"),
              FkOpt("eve_market_group", "EveMarketGroup"),
              Req("published", "BooleanField")>>
      [] model = "EveTypeDogmaAttribute" ->
            <<FkReq("eve_dogma_attribute", "EveDogmaAttribute"),
              FkReq("eve_type", "EveType"), Req("value", "FloatField")>>
      [] model = "EveTypeDogmaEffect" ->
            <<FkReq("eve_dogma_effect", "EveDogmaEffect"),
              FkReq("eve_type", "EveType"), Req("is_default", "BooleanField")>>
      [] model = "EveUnit" -> EveUniverseEntityModel \o
            <<Txt("display_name", "CharField"), Txt("description", "TextField")>>

-----------------------------------------------------------------------------
(* models.py: the EveUniverseMeta class of each model.  An attribute the   *)
(* class does not declare is absent from the record (hasattr is            *)
(* `\in DOMAIN`).  A flat esi name "x" is <<"x">>, a tuple ("a", "b") is   *)
(* <<"a", "b">>.                                                           *)

PositionMappings == [position_x |-> <<"position", "x">>]

EveUniverseMeta(model) ==
    CASE model = "EveAncestry" ->
            [esi_pk |-> "id",
             esi_path_list |-> "Universe.get_universe_ancestries",
             esi_path_object |-> "Universe.get_universe_ancestries",
             field_mappings |-> [eve_bloodline |-> <<"bloodline_id">>]]
      [] model = "EveAsteroidBelt" ->
            [esi_pk |-> "asteroid_belt_id",
             esi_path_object |-> "Universe.get_universe_asteroid_belts_asteroid_belt_id",
             field_mappings |-> [eve_planet |-> <<"planet_id">>] @@ PositionMappings]
      [] model = "EveBloodline" ->
            [esi_pk |-> "bloodline_id",
             esi_path_list |-> "Universe.get_universe_bloodlines",
             esi_path_object |-> "Universe.get_universe_bloodlines",
             field_mappings |-> [eve_race |-> <<"race_id">>,
                                 eve_ship_type |-> <<"ship_type_id">>]]
      [] model = "EveCategory" ->
            [esi_pk |-> "category_id",
             esi_path_list |-> "Universe.get_universe_categories",
             esi_path_object |-> "Universe.get_universe_categories_category_id",
             children |-> <<<<"groups", "EveGroup">>>>]
      [] model = "EveConstellation" ->
            [esi_pk |-> "constellation_id",
             esi_path_list |-> "Universe.get_universe_constellations",
             esi_path_object |-> "Universe.get_universe_constellations_constellation_id",
             field_mappings |-> [eve_region |-> <<"region_id">>] @@ PositionMappings,
             children |-> <<<<"systems", "EveSolarSystem">>>>]
      [] model = "EveDogmaAttribute" ->
            [esi_pk |-> "attribute_id",
             esi_path_list |-> "Dogma.get_dogma_attributes",
             esi_path_object |-> "Dogma.get_dogma_attributes_attribute_id",
             field_mappings |-> [eve_unit |-> <<"unit_id">>]]
      [] model = "EveDogmaEffect" ->
            [esi_pk |-> "effect_id",
             esi_path_list |-> "Dogma.get_dogma_effects",
             esi_path_object |-> "Dogma.get_dogma_effects_effect_id",
             field_mappings |-> [discharge_attribute |-> <<"discharge_attribute_id">>],
             inline_objects |-> <<<<"modifiers", "EveDogmaEffectModifier">>>>]
      [] model = "EveDogmaEffectModifier" ->
            [parent_fk |-> "eve_dogma_effect",
             functional_pk |-> {"eve_dogma_effect", "func"},
             field_mappings |-> [modified_attribute |-> <<"modified_attribute_id">>]]
      [] model = "EveEntity" ->
            [esi_pk |-> "ids", esi_path_object |-> "Universe.post_universe_names"]
      [] model = "EveGraphic" ->
            [esi_pk |-> "graphic_id",
             esi_path_list |-> "Universe.get_universe_graphics",
             esi_path_object |-> "Universe.get_universe_graphics_graphic_id"]
      [] model = "EveGroup" ->
            [esi_pk |-> "group_id",
             esi_path_list |-> "Universe.get_universe_groups",
             esi_path_object |-> "Universe.get_universe_groups_group_id",
             field_mappings |-> [eve_category |-> <<"category_id">>],
             children |-> <<<<"types", "EveType">>>>]
      [] model = "EveMarketGroup" ->
            [esi_pk |-> "market_group_id",
             esi_path_list |-> "Market.get_markets_groups",
             esi_path_object |-> "Market.get_markets_groups_market_group_id",
             field_mappings |-> [parent_market_group |-> <<"parent_group_id">>],
             children |-> <<<<"types", "EveType">>>>]
      [] model = "EveMoon" ->
            [esi_pk |-> "moon_id",
             esi_path_object |-> "Universe.get_universe_moons_moon_id",
             field_mappings |-> [eve_planet |-> <<"planet_id">>] @@ PositionMappings]
      [] model = "EvePlanet" ->
            [esi_pk |-> "planet_id",
             esi_path_object |-> "Universe.get_universe_planets_planet_id",
             field_mappings |-> [eve_solar_system |-> <<"system_id">>,
                                 eve_type |-> <<"type_id">>] @@ PositionMappings,
             children |-> <<<<"moons", "EveMoon">>, <<"asteroid_belts", "EveAsteroidBelt">>>>]
      [] model = "EveRace" ->
            [esi_pk |-> "race_id",
             esi_path_list |-> "Universe.get_universe_races",
             esi_path_object |-> "Universe.get_universe_races"]
      [] model = "EveRegion" ->
            [esi_pk |-> "region_id",
             esi_path_list |-> "Universe.get_universe_regions",
             esi_path_object |-> "Universe.get_universe_regions_region_id",
             children |-> <<<<"constellations", "EveConstellation">>>>]
      [] model = "EveSolarSystem" ->
            [esi_pk |-> "system_id",
             esi_path_list |-> "Universe.get_universe_systems",
             esi_path_object |-> "Universe.get_universe_systems_system_id",
             field_mappings |-> [eve_constellation |-> <<"constellation_id">>,
                                 eve_star |-> <<"star_id">>] @@ PositionMappings,
             children |-> <<>>]
      [] model = "EveStar" ->
            [esi_pk |-> "star_id",
             esi_path_object |-> "Universe.get_universe_stars_star_id",
             field_mappings |-> [eve_type |-> <<"type_id">>]]
      [] model = "EveStargate" ->
            [esi_pk |-> "stargate_id",
             esi_path_object |-> "Universe.get_universe_stargates_stargate_id",
             field_mappings |->
                [destination_eve_stargate |-> <<"destination", "stargate_id">>,
                 destination_eve_solar_system |-> <<"destination", "system_id">>,
                 eve_solar_system |-> <<"system_id">>,
                 eve_type |-> <<"type_id">>] @@ PositionMappings,
             dont_create_related |->
                {"destination_eve_stargate", "destination_eve_solar_system"}]
      [] model = "EveStation" ->
            [esi_pk |-> "station_id",
             esi_path_object |-> "Universe.get_universe_stations_station_id",
             field_mappings |->
                [eve_race |-> <<"race_id">>,
                 eve_solar_system |-> <<"system_id">>,
                 eve_type |-> <<"type_id">>,
                 owner_id |-> <<"owner">>] @@ PositionMappings,
             inline_objects |-> <<<<"services", "EveStationService">>>>]
      [] model = "EveType" ->
            [esi_pk |-> "type_id",
             esi_path_list |-> "Universe.get_universe_types",
             esi_path_object |-> "Universe.get_universe_types_type_id",
             field_mappings |-> [eve_graphic |-> <<"graphic_id">>,
                                 eve_group |-> <<"group_id">>,
                                 eve_market_group |-> <<"market_group_id">>],
             inline_objects |-> <<<<"dogma_attributes", "EveTypeDogmaAttribute">>,
                                  <<"dogma_effects", "EveTypeDogmaEffect">>>>]
      [] model = "EveTypeDogmaAttribute" ->
            [parent_fk |-> "eve_type",
             functional_pk |-> {"eve_type", "eve_dogma_attribute"},
             field_mappings |-> [eve_dogma_attribute |-> <<"attribute_id">>]]
      [] model = "EveTypeDogmaEffect" ->
            [parent_fk |-> "eve_type",
             functional_pk |-> {"eve_type", "eve_dogma_effect"},
             field_mappings |-> [eve_dogma_effect |-> <<"effect_id">>]]
      [] model = "EveUnit" ->
            [esi_pk |-> "unit_id",
             field_mappings |-> [unit_id |-> <<"id">>, unit_name |-> <<"name">>]]

(* The `objects` attribute of each model class. *)
Manager(model) ==
    CASE model \in {"EveAsteroidBelt", "EveMoon"} -> "EvePlanetChildrenManager"
      [] model = "EvePlanet" -> "EvePlanetManager"
      [] model = "EveStargate" -> "EveStargateManager"
      [] model = "EveStation" -> "EveStationManager"
      [] model = "EveEntity" -> "EveEntityManager"
      [] model = "EveUnit" -> "Manager"
      [] model \in InlineModels -> "EveUniverseBaseModelManager"
      [] OTHER -> "EveUniverseEntityModelManager"

(* EvePlanetChildrenManager.__init__(property_name) *)
_my_property_name(model) ==
    IF model = "EveAsteroidBelt" THEN "asteroid_belts" ELSE "moons"

(* hasattr(Model.objects, "update_or_create_esi") *)
has_update_or_create_esi(model) ==
    Manager(model) \notin {"Manager", "EveUniverseBaseModelManager"}

_eve_universe_meta_attr(model, attr_name, none) ==
    IF attr_name \in DOMAIN EveUniverseMeta(model)
    THEN EveUniverseMeta(model)[attr_name]
    ELSE none

esi_pk(model) == _eve_universe_meta_attr(model, "esi_pk", "")

esi_path_object(model) == _eve_universe_meta_attr(model, "esi_path_object", "")

esi_path_list(model) == _eve_universe_meta_attr(model, "esi_path_list", "")

has_esi_path_list(model) == esi_path_list(model) # ""

is_list_only_endpoint(model) ==
    /\ esi_path_list(model) # ""
    /\ esi_path_object(model) # ""
    /\ esi_path_list(model) = esi_path_object(model)

(* the children maps with every key, whatever the settings *)
children_unconditional(model) ==
    CASE model = "EvePlanet" ->
            <<<<"asteroid_belts", "EveAsteroidBelt">>, <<"moons", "EveMoon">>>>
      [] model = "EveSolarSystem" ->
            <<<<"planets", "EvePlanet">>, <<"stargates", "EveStargate">>,
              <<"stations", "EveStation">>>>
      [] OTHER -> _eve_universe_meta_attr(model, "children", <<>>)

children(model) ==
    CASE model = "EvePlanet" ->
            (IF settings.EVEUNIVERSE_LOAD_ASTEROID_BELTS
             THEN <<<<"asteroid_belts", "EveAsteroidBelt">>>> ELSE <<>>)
            \o (IF settings.EVEUNIVERSE_LOAD_MOONS
                THEN <<<<"moons", "EveMoon">>>> ELSE <<>>)
      [] model = "EveSolarSystem" ->
            (IF settings.EVEUNIVERSE_LOAD_PLANETS
             THEN <<<<"planets", "EvePlanet">>>> ELSE <<>>)
            \o (IF settings.EVEUNIVERSE_LOAD_STARGATES
                THEN <<<<"stargates", "EveStargate">>>> ELSE <<>>)
            \o (IF settings.EVEUNIVERSE_LOAD_STATIONS
                THEN <<<<"stations", "EveStation">>>> ELSE <<>>)
      [] OTHER -> _eve_universe_meta_attr(model, "children", <<>>)

inline_objects(model) ==
    IF model = "EveType" /\ ~settings.EVEUNIVERSE_LOAD_DOGMAS
    THEN <<>>
    ELSE _eve_universe_meta_attr(model, "inline_objects", <<>>)

_disabled_fields(model) ==
    CASE model = "EveSolarSystem" ->
            IF ~settings.EVEUNIVERSE_LOAD_STARS THEN {"eve_star"} ELSE {}
      [] model = "EveType" ->
            (IF ~settings.EVEUNIVERSE_LOAD_GRAPHICS THEN {"eve_graphic"} ELSE {})
            \cup (IF ~settings.EVEUNIVERSE_LOAD_MARKET_GROUPS
                  THEN {"eve_market_group"} ELSE {})
      [] OTHER -> {}

(* EveUniverseBaseModel.esi_mapping: one EsiMapping per mapped field, in   *)
(* field order; `field` is the key of the Python dict.                     *)
EsiMapping(model, f) ==
    LET field_mappings == _eve_universe_meta_attr(model, "field_mappings", <<>>)
        functional_pk == _eve_universe_meta_attr(model, "functional_pk", {})
        parent_fk == _eve_universe_meta_attr(model, "parent_fk", "")
        dont_create_related == _eve_universe_meta_attr(model, "dont_create_related", {})
        primary_key == f.name = "id"
        is_pk == primary_key \/ f.name \in functional_pk
    IN  [field |-> f.name,
         esi_name |-> IF primary_key THEN <<esi_pk(model)>>
                      ELSE IF f.name \in DOMAIN field_mappings
                           THEN field_mappings[f.name] ELSE <<f.name>>,
         is_optional |-> f.has_default,
         is_pk |-> is_pk,
         is_fk |-> f.cls \in {"ForeignKey", "OneToOneField"},
         related_model |-> f.related,
         is_parent_fk |-> is_pk /\ f.name = parent_fk,
         is_charfield |-> f.cls \in {"CharField", "TextField"},
         create_related |-> f.name \notin dont_create_related]

(* the mapping of every declared field, per model (settings-independent) *)
AllMappings ==
    [model \in EntityModels \cup InlineModels |->
        [i \in 1..Len(Fields(model)) |-> EsiMapping(model, Fields(model)[i])]]

IsEnabledField(model, mapping) == mapping.field \notin _disabled_fields(model)

esi_mapping(model) == SelectSeq(AllMappings[model], LAMBDA m : IsEnabledField(model, m))

-----------------------------------------------------------------------------
(* The working state of one manager call: the store, the job queue and the *)
(* log of effects so far.  Every step of a call yields a result            *)
(* [S, err, val, created]: the state after it, NoError or the exception    *)
(* raised, and the value returned.  A raised exception keeps the state at  *)
(* the point of the raise: nothing is rolled back.                         *)

NoArgs == 0

Ret(S, obj, created) == [S |-> S, err |-> NoError, val |-> obj, created |-> created]

Raise(S, err) == [S |-> S, err |-> err, val |-> NULL, created |-> FALSE]

(* sequencing: an exception of r propagates, else the statements K follow *)
Bind(r, K(_)) == IF r.err # NoError THEN r ELSE K(r)

Logged(S, event) == [S EXCEPT !.log = Append(@, event)]

Min(set) == CHOOSE i \in set : \A j \in set : i <= j

(* Python truthiness of an id, of a dict and of a list *)
TruthyId(id) == id \notin {NULL, 0}

TruthyDict(d) == DOMAIN d # {}

TruthyList(l) == Len(l) > 0

(* the remote call: the endpoint's method applied to args, then results() *)
esi_results(S, path, arg) ==
    IF path \in DOMAIN esi /\ arg \in DOMAIN esi[path]
    THEN Ret(Logged(S, <<"esi", path, arg>>), esi[path][arg], FALSE)
    ELSE Raise(Logged(S, <<"esi", path, arg>>), "HTTPNotFound")

(* EveUniverseEntityModelManager._fetch_from_esi *)
EveUniverseEntityModelManager_fetch_from_esi(S, model, id) ==
    esi_results(S, esi_path_object(model),
                IF TruthyId(id) /\ ~is_list_only_endpoint(model) THEN id ELSE NoArgs)

(* EvePlanetManager._fetch_from_esi, from the solar system's answer on:    *)
(* the planet's entry in "planets" lends its moons and asteroid belts      *)
EvePlanetManager_enrich(esi_data, sys, id) ==
    IF "planets" \notin DOMAIN sys.val THEN Raise(sys.S, "ValueError")
    ELSE
    LET planets == sys.val.planets
        hits == {i \in 1..Len(planets) : planets[i].planet_id = id}
    IN  IF hits = {} THEN Raise(sys.S, "ValueError")
        ELSE
        LET planet == planets[Min(hits)]
            moons == IF "moons" \in DOMAIN planet
                     THEN [moons |-> planet.moons] ELSE <<>>
            belts == IF "asteroid_belts" \in DOMAIN planet
                     THEN [asteroid_belts |-> planet.asteroid_belts] ELSE <<>>
        IN  Ret(sys.S, belts @@ moons @@ esi_data, FALSE)

(* EvePlanetManager._fetch_from_esi *)
EvePlanetManager_fetch_from_esi(S, model, id) ==
    Bind(EveUniverseEntityModelManager_fetch_from_esi(S, model, id), LAMBDA own :
        IF children(model) = <<>> THEN own
        ELSE IF "system_id" \notin DOMAIN own.val THEN Raise(own.S, "ValueError")
        ELSE Bind(EveUniverseEntityModelManager_fetch_from_esi(
                        own.S, "EveSolarSystem", own.val.system_id),
                  LAMBDA sys : EvePlanetManager_enrich(own.val, sys, id)))

(* EvePlanetChildrenManager._fetch_from_esi, from the solar system's       *)
(* answer on: the planet listing this id under its property gives planet_id *)
EvePlanetChildrenManager_enrich(esi_data, sys, id, prop) ==
    IF "planets" \notin DOMAIN sys.val THEN Raise(sys.S, "ValueError")
    ELSE
    LET planets == sys.val.planets
        hits == {i \in 1..Len(planets) :
                    /\ prop \in DOMAIN planets[i]
                    /\ \E j \in 1..Len(planets[i][prop]) : planets[i][prop][j] = id}
    IN  IF hits = {} THEN Raise(sys.S, "ValueError")
        ELSE Ret(sys.S, [planet_id |-> planets[Min(hits)].planet_id] @@ esi_data, FALSE)

(* EvePlanetChildrenManager._fetch_from_esi *)
EvePlanetChildrenManager_fetch_from_esi(S, model, id) ==
    Bind(EveUniverseEntityModelManager_fetch_from_esi(S, model, id), LAMBDA own :
        IF "system_id" \notin DOMAIN own.val THEN Raise(own.S, "ValueError")
        ELSE Bind(EveUniverseEntityModelManager_fetch_from_esi(
                        own.S, "EveSolarSystem", own.val.system_id),
                  LAMBDA sys : EvePlanetChildrenManager_enrich(
                                    own.val, sys, id, _my_property_name(model))))

(* self._fetch_from_esi(id), dispatched on the manager class *)
_fetch_from_esi(S, model, id) ==
    CASE Manager(model) = "EvePlanetManager" -> EvePlanetManager_fetch_from_esi(S, model, id)
      [] Manager(model) = "EvePlanetChildrenManager" ->
            EvePlanetChildrenManager_fetch_from_esi(S, model, id)
      [] OTHER -> EveUniverseEntityModelManager_fetch_from_esi(S, model, id)

(* the scan of _handle_list_endpoints: the first row carrying the id *)
ListRow(model, id, esi_data) ==
    LET hits == {i \in 1..Len(esi_data) :
                    esi_pk(model) \in DOMAIN esi_data[i] /\ esi_data[i][esi_pk(model)] = id}
    IN  IF hits = {} THEN <<>> ELSE <<esi_data[Min(hits)]>>

(* _handle_list_endpoints returning the first row of the list, whatever    *)
(* its id                                                                  *)
_handle_list_endpoints_first_row(model, id, fetched) ==
    IF ~is_list_only_endpoint(model) THEN fetched
    ELSE IF fetched.val = <<>> THEN Raise(fetched.S, "HTTPNotFound")
    ELSE Ret(fetched.S, fetched.val[1], FALSE)

(* EveUniverseEntityModelManager._handle_list_endpoints, applied to what   *)
(* the fetch returned                                                      *)
_handle_list_endpoints(model, id, fetched) ==
    IF ~is_list_only_endpoint(model) THEN fetched
    ELSE IF ListRow(model, id, fetched.val) = <<>> THEN Raise(fetched.S, "HTTPNotFound")
    ELSE Ret(fetched.S, ListRow(model, id, fetched.val)[1], FALSE)

-----------------------------------------------------------------------------
(* Django's Manager.get / update_or_create on the tables.                  *)

Exists(S, model, id) == id \in DOMAIN S.db[model]

FieldDefault(f) ==
    IF f.has_default THEN f.default
    ELSE IF f.cls \in {"CharField", "TextField"} THEN EMPTY ELSE NULL

(* the declared fields of every model, by name *)
FieldsByName ==
    [model \in EntityModels \cup InlineModels |->
        [name \in {Fields(model)[i].name : i \in 1..Len(Fields(model))} |->
            Fields(model)[CHOOSE i \in 1..Len(Fields(model)) :
                            Fields(model)[i].name = name]]]

FieldNames(model) == DOMAIN FieldsByName[model]

FieldOf(model, name) == FieldsByName[model][name]

(* A row as the model constructor builds it: the given values, else the field default *)
NewRow(model, given) ==
    [n \in FieldNames(model) |->
        IF n \in DOMAIN given THEN given[n] ELSE FieldDefault(FieldOf(model, n))]

(* A stored row after setattr(obj, field, value) for every default *)
SetAttrs(row, defaults) ==
    [n \in DOMAIN row |-> IF n \in DOMAIN defaults THEN defaults[n] ELSE row[n]]

(* The NOT NULL constraints of the table *)
NotNullOk(model, row) ==
    \A n \in FieldNames(model) : FieldOf(model, n).null \/ row[n] # NULL

(* The UNIQUE constraint of each OneToOneField column: no other row holds  *)
(* the same non-null value                                                 *)
UniqueOk(table, model, id, row) ==
    \A n \in FieldNames(model) :
        (FieldOf(model, n).cls = "OneToOneField" /\ row[n] # NULL)
            => \A other \in DOMAIN table : other = id \/ table[other][n] # row[n]

(* obj.save() of an entity row *)
Save(S, model, id, row, created) ==
    IF ~NotNullOk(model, row) \/ ~UniqueOk(S.db[model], model, id, row)
    THEN Raise(S, "IntegrityError")
    ELSE Ret(Logged([S EXCEPT !.db[model] = (id :> row) @@ @], <<"save", model, id>>),
             id, created)

(* update_or_create without its lookup: a record is built and reported as  *)
(* created every time                                                      *)
update_or_create_always_creates(S, model, id, defaults) ==
    Save(S, model, id, NewRow(model, ("id" :> id) @@ defaults), TRUE)

(* get_or_create in the place of update_or_create: a stored record is     *)
(* left as it is                                                           *)
update_or_create_keeps_stored(S, model, id, defaults) ==
    IF Exists(S, model, id) THEN Ret(S, id, FALSE)
    ELSE Save(S, model, id, NewRow(model, ("id" :> id) @@ defaults), TRUE)

(* Model.objects.update_or_create(id=id, defaults=defaults) *)
update_or_create(S, model, id, defaults) ==
    IF Exists(S, model, id)
    THEN Save(S, model, id, SetAttrs(S.db[model][id], defaults), FALSE)
    ELSE Save(S, model, id, NewRow(model, ("id" :> id) @@ defaults), TRUE)

(* obj.save() of the i-th row of an inline table (a new row when i is one  *)
(* past the end)                                                           *)
InlineSave(S, model, i, row, created) ==
    IF ~NotNullOk(model, row) THEN Raise(S, "IntegrityError")
    ELSE Ret(Logged([S EXCEPT !.inl[model] =
                        IF created THEN Append(@, row) ELSE [@ EXCEPT ![i] = row]],
                    <<"save", model, i>>),
             i, created)

(* the rows of an inline table with the given two key values *)
InlineHits(table, parent_fk, parent_id, other_pk, value) ==
    {i \in 1..Len(table) : table[i][parent_fk] = parent_id /\ table[i][other_pk] = value}

(* the inline upsert looking its row up by the parent alone *)
inline_update_or_create_by_parent(S, model, parent_fk, parent_id, other_pk, value, defaults) ==
    LET hits == {i \in 1..Len(S.inl[model]) : S.inl[model][i][parent_fk] = parent_id}
    IN  IF hits = {}
        THEN InlineSave(S, model, Len(S.inl[model]) + 1,
                        NewRow(model, (parent_fk :> parent_id) @@ (other_pk :> value)
                                        @@ defaults),
                        TRUE)
        ELSE InlineSave(S, model, Min(hits),
                        SetAttrs(S.inl[model][Min(hits)],
                                 (other_pk :> value) @@ defaults), FALSE)

(* InlineModel.objects.update_or_create(parent_fk=parent, other_pk=value,  *)
(* defaults=defaults): the lookup is by the two key fields.                *)
inline_update_or_create(S, model, parent_fk, parent_id, other_pk, value, defaults) ==
    LET hits == InlineHits(S.inl[model], parent_fk, parent_id, other_pk, value)
    IN  IF Cardinality(hits) > 1 THEN Raise(S, "MultipleObjectsReturned")
        ELSE IF hits = {}
        THEN InlineSave(S, model, Len(S.inl[model]) + 1,
                        NewRow(model, (parent_fk :> parent_id) @@ (other_pk :> value)
                                        @@ defaults),
                        TRUE)
        ELSE InlineSave(S, model, Min(hits),
                        SetAttrs(S.inl[model][Min(hits)], defaults), FALSE)

-----------------------------------------------------------------------------
(* The manager methods.  fuel is the interpreter's recursion limit, scaled *)
(* down: a chain of nested upserts longer than MaxDepth raises.            *)

RECURSIVE update_or_create_esi(_, _, _, _, _, _)

(* get_or_create_esi without its local lookup *)
get_or_create_esi_refetch(S, model, id, include_children, wait_for_children, fuel) ==
    update_or_create_esi(S, model, id, include_children, wait_for_children, fuel)

(* EveUniverseEntityModelManager.get_or_create_esi *)
get_or_create_esi(S, model, id, include_children, wait_for_children, fuel) ==
    IF Exists(S, model, id) THEN Ret(S, id, FALSE)
    ELSE update_or_create_esi(S, model, id, include_children, wait_for_children, fuel)

(* the lookup of a flat name only: a nested name is never resolved *)
EsiValue_nested_unresolved(esi_obj, esi_name) ==
    IF Len(esi_name) = 1 /\ esi_name[1] \in DOMAIN esi_obj
    THEN esi_obj[esi_name[1]] ELSE NULL

(* esi_obj[esi_name] for a flat name, esi_obj[a][b] for a nested one; None *)
(* when the key is absent                                                  *)
EsiValue(esi_obj, esi_name) ==
    IF Len(esi_name) = 1
    THEN IF esi_name[1] \in DOMAIN esi_obj THEN esi_obj[esi_name[1]] ELSE NULL
    ELSE IF esi_name[1] \in DOMAIN esi_obj /\ esi_name[2] \in DOMAIN esi_obj[esi_name[1]]
         THEN esi_obj[esi_name[1]][esi_name[2]]
         ELSE NULL

(* the foreign-key branch without the fetch of a missing related object *)
RelatedObject_never_fetched(S, m, esi_value, fuel) ==
    IF Exists(S, m.related_model, esi_value) THEN Ret(S, esi_value, FALSE)
    ELSE Ret(S, NULL, FALSE)

(* a related solar system fetched whatever dont_create_related says *)
RelatedObject_system_created(S, m, esi_value, fuel) ==
    IF Exists(S, m.related_model, esi_value) THEN Ret(S, esi_value, FALSE)
    ELSE IF (m.create_related \/ m.related_model = "EveSolarSystem")
            /\ has_update_or_create_esi(m.related_model)
    THEN update_or_create_esi(S, m.related_model, esi_value, FALSE, TRUE, fuel - 1)
    ELSE Ret(S, NULL, FALSE)

(* every reference followed, also one that is not to be created (the      *)
(* upsert of such a one is charged two levels of the recursion limit)      *)
RelatedObject_followed(S, m, esi_value, fuel) ==
    IF Exists(S, m.related_model, esi_value) THEN Ret(S, esi_value, FALSE)
    ELSE IF ~has_update_or_create_esi(m.related_model) THEN Ret(S, NULL, FALSE)
    ELSE update_or_create_esi(S, m.related_model, esi_value, FALSE, TRUE,
                              IF m.create_related THEN fuel - 1 ELSE fuel - 2)

(* the related object upserted together with its children *)
RelatedObject_with_children(S, m, esi_value, fuel) ==
    IF Exists(S, m.related_model, esi_value) THEN Ret(S, esi_value, FALSE)
    ELSE IF m.create_related /\ has_update_or_create_esi(m.related_model)
    THEN update_or_create_esi(S, m.related_model, esi_value, TRUE, TRUE, fuel - 1)
    ELSE Ret(S, NULL, FALSE)

(* the foreign-key branch of _defaults_from_esi_obj: the related object,   *)
(* fetched when it is not stored and may be created, else None             *)
RelatedObject(S, m, esi_value, fuel) ==
    IF Exists(S, m.related_model, esi_value) THEN Ret(S, esi_value, FALSE)
    ELSE IF m.create_related /\ has_update_or_create_esi(m.related_model)
    THEN update_or_create_esi(S, m.related_model, esi_value, FALSE, TRUE, fuel - 1)
    ELSE Ret(S, NULL, FALSE)

(* the value _defaults_from_esi_obj computes for one mapped field with a   *)
(* non-null esi_value                                                      *)
FieldValue(S, m, esi_value, fuel) ==
    IF m.is_fk THEN RelatedObject(S, m, esi_value, fuel)
    ELSE Ret(S, IF m.is_charfield /\ esi_value = NULL THEN EMPTY ELSE esi_value, FALSE)

(* Python's None in a place of a payload where the endpoint declares an    *)
(* object: a dict and None are told apart by this marker                   *)
NoneObject == [None |-> NULL]

IsNone(obj) == "None" \in DOMAIN obj

(* `esi_name[1] in eve_data_obj[esi_name[0]]` with None for the outer      *)
(* value: the membership test on None raises TypeError                     *)
NestedNull(esi_obj, esi_name) ==
    /\ Len(esi_name) = 2
    /\ esi_name[1] \in DOMAIN esi_obj
    /\ IsNone(esi_obj[esi_name[1]])

RECURSIVE _defaults_loop(_, _, _, _, _, _)

(* the loop of _defaults_from_esi_obj over esi_mapping().items(): a        *)
(* primary key is skipped, and so is a field whose esi_value is None (the  *)
(* assignment to defaults is inside `if esi_value is not None`)            *)
_defaults_loop(S, mapping, esi_obj, i, defaults, fuel) ==
    IF i > Len(mapping) THEN Ret(S, defaults, FALSE)
    ELSE IF ~mapping[i].is_pk /\ NestedNull(esi_obj, mapping[i].esi_name)
    THEN Raise(S, "TypeError")
    ELSE IF mapping[i].is_pk \/ EsiValue(esi_obj, mapping[i].esi_name) = NULL
    THEN _defaults_loop(S, mapping, esi_obj, i + 1, defaults, fuel)
    ELSE Bind(FieldValue(S, mapping[i], EsiValue(esi_obj, mapping[i].esi_name), fuel),
              LAMBDA v : _defaults_loop(v.S, mapping, esi_obj, i + 1,
                                        (mapping[i].field :> v.val) @@ defaults, fuel))

(* EveUniverseBaseModelManager._defaults_from_esi_obj *)
_defaults_from_esi_obj(S, model, esi_obj, fuel) ==
    _defaults_loop(S, esi_mapping(model), esi_obj, 1, <<>>, fuel)

(* the key fields of an inline model: the primary-key mapping that is the  *)
(* parent reference and the one that is not                                *)
ParentFk(mapping) ==
    mapping[CHOOSE i \in 1..Len(mapping) : mapping[i].is_pk /\ mapping[i].is_parent_fk]

OtherPk(mapping) ==
    mapping[CHOOSE i \in 1..Len(mapping) : mapping[i].is_pk /\ ~mapping[i].is_parent_fk]

(* the value of the second key field of an inline entry *)
OtherPkValue(S, other_pk, esi_value, fuel) ==
    IF ~other_pk.is_fk THEN Ret(S, esi_value, FALSE)
    ELSE IF Exists(S, other_pk.related_model, esi_value) THEN Ret(S, esi_value, FALSE)
    ELSE IF has_update_or_create_esi(other_pk.related_model)
    THEN get_or_create_esi(S, other_pk.related_model, esi_value, FALSE, TRUE, fuel - 1)
    ELSE Ret(S, NULL, FALSE)

(* the body of the inner loop of _update_or_create_inline_objects *)
InlineEntry(S, InlineModel, parent_fk, other_pk, eve_data_obj, parent_obj, fuel) ==
    Bind(OtherPkValue(S, other_pk, eve_data_obj[other_pk.esi_name[1]], fuel), LAMBDA value :
    Bind(_defaults_from_esi_obj(value.S, InlineModel, eve_data_obj, fuel), LAMBDA d :
        inline_update_or_create(d.S, InlineModel, parent_fk.field, parent_obj,
                                other_pk.field, value.val, d.val)))

RECURSIVE _inline_loop(_, _, _, _, _, _, _)

(* the two loops of _update_or_create_inline_objects: k over               *)
(* inline_objects.items(), j over the entries of the k-th inline list      *)
_inline_loop(S, inlines, parent_eve_data_obj, parent_obj, k, j, fuel) ==
    IF k > Len(inlines) THEN Ret(S, parent_obj, FALSE)
    ELSE IF ~(inlines[k][1] \in DOMAIN parent_eve_data_obj
              /\ TruthyList(parent_eve_data_obj[inlines[k][1]]))
    THEN _inline_loop(S, inlines, parent_eve_data_obj, parent_obj, k + 1, 1, fuel)
    ELSE IF j > Len(parent_eve_data_obj[inlines[k][1]])
    THEN _inline_loop(S, inlines, parent_eve_data_obj, parent_obj, k + 1, 1, fuel)
    ELSE Bind(InlineEntry(S, inlines[k][2], ParentFk(esi_mapping(inlines[k][2])),
                          OtherPk(esi_mapping(inlines[k][2])),
                          parent_eve_data_obj[inlines[k][1]][j], parent_obj, fuel),
              LAMBDA w : _inline_loop(w.S, inlines, parent_eve_data_obj, parent_obj,
                                      k, j + 1, fuel))

RECURSIVE WithoutRowsOf(_, _, _, _)

(* the store without the rows of the parent in the tables of its inline    *)
(* objects                                                                 *)
WithoutRowsOf(S, inlines, parent_obj, k) ==
    IF k > Len(inlines) THEN S
    ELSE WithoutRowsOf(
            [S EXCEPT !.inl[inlines[k][2]] =
                SelectSeq(@, LAMBDA row :
                    row[ParentFk(esi_mapping(inlines[k][2])).field] # parent_obj)],
            inlines, parent_obj, k + 1)

(* the inline rows of the parent replaced by the entries of the payload *)
_update_or_create_inline_objects_replacing(S, parent_eve_data_obj, parent_obj, inlines, fuel) ==
    IF ~TruthyDict(parent_eve_data_obj) \/ ~TruthyId(parent_obj)
    THEN Raise(S, "ValueError")
    ELSE _inline_loop(WithoutRowsOf(S, inlines, parent_obj, 1), inlines,
                      parent_eve_data_obj, parent_obj, 1, 1, fuel)

(* EveUniverseEntityModelManager._update_or_create_inline_objects *)
_update_or_create_inline_objects(S, parent_eve_data_obj, parent_obj, inlines, fuel) ==
    IF ~TruthyDict(parent_eve_data_obj) \/ ~TruthyId(parent_obj)
    THEN Raise(S, "ValueError")
    ELSE _inline_loop(S, inlines, parent_eve_data_obj, parent_obj, 1, 1, fuel)

(* a new service row for every entry, whatever is stored *)
create_service(S, name) ==
    Ret(Logged([S EXCEPT !.inl["EveStationService"] = Append(@, [name |-> name])],
               <<"save", "EveStationService", Len(S.inl["EveStationService"]) + 1>>),
        Len(S.inl["EveStationService"]) + 1, TRUE)

(* EveStationService.objects.get_or_create(name=service_name): the row of  *)
(* that name, made when there is none                                      *)
get_or_create_service(S, name) ==
    IF \E i \in 1..Len(S.inl["EveStationService"]) :
            S.inl["EveStationService"][i].name = name
    THEN Ret(S, Min({i \in 1..Len(S.inl["EveStationService"]) :
                        S.inl["EveStationService"][i].name = name}), FALSE)
    ELSE Ret(Logged([S EXCEPT !.inl["EveStationService"] = Append(@, [name |-> name])],
                    <<"save", "EveStationService", Len(S.inl["EveStationService"]) + 1>>),
             Len(S.inl["EveStationService"]) + 1, TRUE)

RECURSIVE _services_loop(_, _, _, _)

(* for service_name in parent_eve_data_obj["services"] *)
_services_loop(S, names, i, services) ==
    IF i > Len(names) THEN Ret(S, services, FALSE)
    ELSE Bind(get_or_create_service(S, names[i]),
              LAMBDA g : _services_loop(g.S, names, i + 1, Append(services, g.val)))

Linked(S, station, service) ==
    \E i \in 1..Len(S.inl["EveStation_services"]) :
        /\ S.inl["EveStation_services"][i].evestation_id = station
        /\ S.inl["EveStation_services"][i].evestationservice_id = service

RECURSIVE services_add(_, _, _, _)

(* parent_obj.services.add of the collected services: a link for every    *)
(* service that is not attached yet; no link is ever removed               *)
services_add(S, station, services, i) ==
    IF i > Len(services) THEN S
    ELSE services_add(
            IF Linked(S, station, services[i]) THEN S
            ELSE Logged([S EXCEPT !.inl["EveStation_services"] =
                            Append(@, [evestation_id |-> station,
                                       evestationservice_id |-> services[i]])],
                        <<"add", station, services[i]>>),
            station, services, i + 1)

(* EveStationManager._update_or_create_inline_objects *)
EveStationManager_update_or_create_inline_objects(S, parent_eve_data_obj, parent_obj) ==
    IF "services" \notin DOMAIN parent_eve_data_obj THEN Ret(S, NULL, FALSE)
    ELSE Bind(_services_loop(S, parent_eve_data_obj.services, 1, <<>>),
              LAMBDA l : Ret(services_add(l.S, parent_obj, l.val, 1), NULL, FALSE))

(* load_eve_entity.delay(child_class, id, include_children=...,            *)
(* wait_for_children=...): one more job in the queue                       *)
delay(S, model_name, id, include_children, wait_for_children) ==
    Logged([S EXCEPT !.jobs = @ (+) SetToBag({
                [model_name |-> model_name, id |-> id,
                 include_children |-> include_children,
                 wait_for_children |-> wait_for_children]})],
           <<"delay", model_name, id>>)

(* The element the loop `for id in parent_eve_data_obj[key]` hands on as   *)
(* id.  The entries of a solar system's "planets" list are objects         *)
(* ({"planet_id": ..., "moons": [...]}, read that way by the planet        *)
(* fetchers), not ids: NotAnId stands for such an object used as an id.    *)
(* No endpoint has a record under it.                                      *)
NotAnId == -2

ChildId(key, element) == IF key = "planets" THEN NotAnId ELSE element

(* the body of the inner loop of _update_or_create_children: the child is  *)
(* upserted on the spot (the log marks where) or handed to the job queue   *)
Child(S, child_class, id, include_children, wait_for_children, fuel) ==
    IF wait_for_children
    THEN update_or_create_esi(Logged(S, <<"child", child_class, id>>), child_class, id,
                              include_children, wait_for_children, fuel - 1)
    ELSE Ret(delay(S, child_class, id, include_children, wait_for_children), NULL, FALSE)

RECURSIVE _children_loop(_, _, _, _, _, _, _, _)

(* the two loops of _update_or_create_children: k over children().items(), *)
(* j over the ids listed under the k-th key                                *)
_children_loop(S, kids, data, include_children, wait_for_children, k, j, fuel) ==
    IF k > Len(kids) THEN Ret(S, NULL, FALSE)
    ELSE IF ~(kids[k][1] \in DOMAIN data /\ TruthyList(data[kids[k][1]]))
    THEN _children_loop(S, kids, data, include_children, wait_for_children, k + 1, 1, fuel)
    ELSE IF j > Len(data[kids[k][1]])
    THEN _children_loop(S, kids, data, include_children, wait_for_children, k + 1, 1, fuel)
    ELSE Bind(Child(S, kids[k][2], ChildId(kids[k][1], data[kids[k][1]][j]),
                    include_children, wait_for_children, fuel),
              LAMBDA c : _children_loop(c.S, kids, data, include_children,
                                        wait_for_children, k, j + 1, fuel))

(* EveUniverseEntityModelManager._update_or_create_children *)
_update_or_create_children(S, model, data, include_children, wait_for_children, fuel) ==
    IF ~TruthyDict(data) THEN Raise(S, "ValueError")
    ELSE _children_loop(S, children(model), data, include_children, wait_for_children,
                        1, 1, fuel)

(* update_or_create_esi from the upsert of the record on: inline objects,  *)
(* then children, then `return obj, created`                               *)
AfterUpsert(w, model, eve_data_obj, include_children, wait_for_children, fuel) ==
    Bind(IF inline_objects(model) = <<>> THEN w
         ELSE IF Manager(model) = "EveStationManager"
         THEN EveStationManager_update_or_create_inline_objects(w.S, eve_data_obj, w.val)
         ELSE _update_or_create_inline_objects(w.S, eve_data_obj, w.val,
                                               inline_objects(model), fuel),
         LAMBDA n :
    Bind(IF include_children
         THEN _update_or_create_children(n.S, model, eve_data_obj, include_children,
                                         wait_for_children, fuel)
         ELSE n, LAMBDA c :
        Ret(c.S, w.val, w.created)))

(* update_or_create_esi that gives up quietly when nothing can be fetched *)
update_or_create_esi_fetch_swallowed(S, model, id, include_children, wait_for_children, fuel) ==
    IF fuel <= 0 THEN Raise(S, "RecursionError")
    ELSE IF _handle_list_endpoints(model, id, _fetch_from_esi(S, model, id)).err # NoError
    THEN Ret(S, NULL, FALSE)
    ELSE
    Bind(_handle_list_endpoints(model, id, _fetch_from_esi(S, model, id)), LAMBDA e :
        IF ~TruthyDict(e.val) THEN Raise(e.S, "UnboundLocalError")
        ELSE
        Bind(_defaults_from_esi_obj(e.S, model, e.val, fuel), LAMBDA d :
        Bind(update_or_create(d.S, model, id, d.val), LAMBDA w :
            AfterUpsert(w, model, e.val, include_children, wait_for_children, fuel))))

(* update_or_create_esi with the children handled before the record is    *)
(* written                                                                 *)
update_or_create_esi_children_first(S, model, id, include_children, wait_for_children, fuel) ==
    IF fuel <= 0 THEN Raise(S, "RecursionError")
    ELSE
    Bind(_handle_list_endpoints(model, id, _fetch_from_esi(S, model, id)), LAMBDA e :
        IF ~TruthyDict(e.val) THEN Raise(e.S, "UnboundLocalError")
        ELSE
        Bind(IF include_children
             THEN _update_or_create_children(e.S, model, e.val, include_children,
                                             wait_for_children, fuel)
             ELSE e, LAMBDA c :
        Bind(_defaults_from_esi_obj(c.S, model, e.val, fuel), LAMBDA d :
            update_or_create(d.S, model, id, d.val))))

(* EveUniverseEntityModelManager.update_or_create_esi.  Every exception is *)
(* logged and raised again; an empty remote object skips the whole body    *)
(* and the final "return obj, created" then finds obj unbound.             *)
EveUniverseEntityModelManager_update_or_create_esi(S, model, id, include_children, wait_for_children, fuel) ==
    IF fuel <= 0 THEN Raise(S, "RecursionError")
    ELSE
    Bind(_handle_list_endpoints(model, id, _fetch_from_esi(S, model, id)), LAMBDA e :
        IF ~TruthyDict(e.val) THEN Raise(e.S, "UnboundLocalError")
        ELSE
        Bind(_defaults_from_esi_obj(e.S, model, e.val, fuel), LAMBDA d :
        Bind(update_or_create(d.S, model, id, d.val), LAMBDA w :
            AfterUpsert(w, model, e.val, include_children, wait_for_children, fuel))))

(* the stargate manager without its override: the inherited method alone *)
EveStargateManager_inherited(S, model, id, include_children, wait_for_children, fuel) ==
    EveUniverseEntityModelManager_update_or_create_esi(
        S, model, id, include_children, wait_for_children, fuel)

(* the reciprocal fix-up of EveStargateManager.update_or_create_esi: the   *)
(* destination gate, when the new row names one, is pointed back at this   *)
(* gate and at this gate's solar system, and saved.  (The gate saved is    *)
(* the instance read while the defaults were resolved; nothing writes that *)
(* row in between unless a gate names itself as destination.)              *)
Reciprocal(r, model) ==
    LET obj == r.S.db[model][r.val]
        dest == obj.destination_eve_stargate
        row == [r.S.db[model][dest] EXCEPT
                    !.destination_eve_stargate = r.val,
                    !.destination_eve_solar_system =
                        IF obj.eve_solar_system # NULL THEN obj.eve_solar_system ELSE @]
    IN  IF ~TruthyId(r.val) \/ dest = NULL THEN r
        ELSE Bind(Save(r.S, model, dest, row, FALSE),
                  LAMBDA s : Ret(s.S, r.val, r.created))

(* EveStargateManager.update_or_create_esi *)
EveStargateManager_update_or_create_esi(S, model, id, include_children, wait_for_children, fuel) ==
    Bind(EveUniverseEntityModelManager_update_or_create_esi(
            S, model, id, include_children, wait_for_children, fuel),
         LAMBDA r : Reciprocal(r, model))

(* Model.objects.update_or_create_esi, dispatched on the manager class *)
update_or_create_esi(S, model, id, include_children, wait_for_children, fuel) ==
    IF Manager(model) = "EveStargateManager"
    THEN EveStargateManager_update_or_create_esi(
            S, model, id, include_children, wait_for_children, fuel)
    ELSE EveUniverseEntityModelManager_update_or_create_esi(
            S, model, id, include_children, wait_for_children, fuel)

RECURSIVE _all_rows_loop(_, _, _, _, _)

(* the loop of update_or_create_all_esi over the rows of a list-only       *)
(* endpoint: every row is compiled and written                             *)
_all_rows_loop(S, model, rows, i, fuel) ==
    IF i > Len(rows) THEN Ret(S, NULL, FALSE)
    ELSE Bind(_defaults_from_esi_obj(S, model, rows[i], fuel),
              LAMBDA d : Bind(update_or_create(d.S, model, rows[i][esi_pk(model)], d.val),
                              LAMBDA u : _all_rows_loop(u.S, model, rows, i + 1, fuel)))

RECURSIVE _all_ids_loop(_, _, _, _, _, _, _)

(* the loop of update_or_create_all_esi over the ids of a list endpoint:   *)
(* each id is loaded at once, or handed to the job queue                   *)
_all_ids_loop(S, model, ids, i, include_children, wait_for_children, fuel) ==
    IF i > Len(ids) THEN Ret(S, NULL, FALSE)
    ELSE IF wait_for_children
    THEN Bind(update_or_create_esi(S, model, ids[i], include_children,
                                   wait_for_children, fuel),
              LAMBDA u : _all_ids_loop(u.S, model, ids, i + 1, include_children,
                                       wait_for_children, fuel))
    ELSE _all_ids_loop(delay(S, model, ids[i], include_children, wait_for_children),
                       model, ids, i + 1, include_children, wait_for_children, fuel)

(* update_or_create_all_esi that asks the list endpoint before it looks    *)
(* whether the model declares one                                          *)
update_or_create_all_esi_fetch_first(S, model, include_children, wait_for_children, fuel) ==
    Bind(esi_results(S, esi_path_list(model), NoArgs),
         LAMBDA l : _all_ids_loop(l.S, model, l.val, 1, include_children,
                                  wait_for_children, fuel))

(* EveUniverseEntityModelManager.update_or_create_all_esi *)
update_or_create_all_esi(S, model, include_children, wait_for_children, fuel) ==
    IF is_list_only_endpoint(model)
    THEN Bind(_fetch_from_esi(S, model, NULL),
              LAMBDA l : _all_rows_loop(l.S, model, l.val, 1, fuel))
    ELSE IF has_esi_path_list(model)
    THEN Bind(esi_results(S, esi_path_list(model), NoArgs),
              LAMBDA l : _all_ids_loop(l.S, model, l.val, 1, include_children,
                                       wait_for_children, fuel))
    ELSE Raise(S, "TypeError")

(* tasks.load_eve_object, the body of a deferred job *)
load_eve_object(S, model_name, id, include_children, wait_for_children) ==
    update_or_create_esi(S, model_name, id, include_children, wait_for_children, MaxDepth)

-----------------------------------------------------------------------------
(* The entity resolver: EveEntity.objects and its queryset.  managers.py   *)
(* as kept here ends before EveEntityManager; the operators below follow   *)
(* section 4.5 of the specification and, where they fix the behaviour, the *)
(* cases of tests/test_models.py (TestEveEntity, TestEveEntityQuerySet).   *)

(* EveEntity.CATEGORY_*, as codes *)
Category ==
    [alliance |-> 1, character |-> 2, constellation |-> 3, corporation |-> 4,
     faction |-> 5, inventory_type |-> 6, region |-> 7, solar_system |-> 8,
     station |-> 9]

(* the ids of a set, in ascending order *)
RECURSIVE Sorted(_)
Sorted(set) ==
    IF set = {} THEN <<>> ELSE <<Min(set)>> \o Sorted(set \ {Min(set)})

(* the id list cut into batches of at most `size` ids *)
RECURSIVE chunks(_, _)
chunks(ids, size) ==
    IF Len(ids) = 0 THEN <<>>
    ELSE IF Len(ids) <= size THEN <<ids>>
    ELSE <<SubSeq(ids, 1, size)>> \o chunks(SubSeq(ids, size + 1, Len(ids)), size)

(* esi.client.Universe.post_universe_names(ids=ids).results(): the ids of  *)
(* the batch the endpoint resolves; a batch above the ceiling is refused   *)
post_universe_names(S, ids) ==
    IF Len(ids) > MaxBatch
    THEN Raise(Logged(S, <<"esi", "Universe.post_universe_names", Len(ids)>>),
               "HTTPBadRequest")
    ELSE Ret(Logged(S, <<"esi", "Universe.post_universe_names", Len(ids)>>),
             SelectSeq(ids, LAMBDA id : id \in DOMAIN esi["Universe.post_universe_names"]),
             FALSE)

(* the name and category of a resolved item *)
ResolvedItem(id) ==
    [name |-> esi["Universe.post_universe_names"][id].name,
     category |-> esi["Universe.post_universe_names"][id].category]

(* the resolved items of one batch are written to their rows, a row being  *)
(* created for an id that has none                                         *)
RECURSIVE _write_items(_, _, _)
_write_items(S, items, i) ==
    IF i > Len(items) THEN Ret(S, NoArgs, FALSE)
    ELSE Bind(update_or_create(S, "EveEntity", items[i], ResolvedItem(items[i])),
              LAMBDA w : _write_items(w.S, items, i + 1))

(* one resolution call per batch; the counts of the batches are added up *)
RECURSIVE _resolve_entities_from_esi(_, _, _, _)
_resolve_entities_from_esi(S, batches, i, resolved_counter) ==
    IF i > Len(batches) THEN Ret(S, resolved_counter, FALSE)
    ELSE Bind(post_universe_names(S, batches[i]),
              LAMBDA r : Bind(_write_items(r.S, r.val, 1),
              LAMBDA w : _resolve_entities_from_esi(w.S, batches, i + 1,
                                                    resolved_counter + Len(r.val))))

(* EveEntity.objects.filter(id__in=ids).update_from_esi() *)
update_from_esi(S, ids) ==
    _resolve_entities_from_esi(S, chunks(Sorted(ids \cap DOMAIN S.db["EveEntity"]),
                                         MaxBatch), 1, 0)

(* bulk_create_esi that resolves and counts the new ids only *)
bulk_create_esi_new_only(S, ids) ==
    _resolve_entities_from_esi(S, chunks(Sorted(ids \ DOMAIN S.db["EveEntity"]),
                                         MaxBatch), 1, 0)

(* EveEntity.objects.bulk_create_esi(ids) *)
bulk_create_esi(S, ids) ==
    IF ids \ DOMAIN S.db["EveEntity"] = {} THEN Ret(S, 0, FALSE)
    ELSE _resolve_entities_from_esi(S, chunks(Sorted(ids), MaxBatch), 1, 0)

-----------------------------------------------------------------------------
(* models.py: EveEntity.get_or_create_pendant_object.  EveAllianceInfo,    *)
(* EveCharacter and EveCorporationInfo are models of another application:  *)
(* whether their table holds the id is an input (stored), their create     *)
(* function an event of the log.                                           *)

(* map_category_2_other: (MyModel, func) by category, func "" for None *)
map_category_2_other ==
    (Category.alliance :> <<"EveAllianceInfo", "create_alliance">>)
    @@ (Category.character :> <<"EveCharacter", "create_character">>)
    @@ (Category.corporation :> <<"EveCorporationInfo", "create_corporation">>)
    @@ (Category.inventory_type :> <<"EveType", "">>)
    @@ (Category.region :> <<"EveRegion", "">>)
    @@ (Category.solar_system :> <<"EveSolarSystem", "">>)

(* the branches of get_or_create_pendant_object over a given mapping *)
PendantObject(S, self, include_children, wait_for_children, stored, mapping) ==
    IF self.category \notin DOMAIN mapping
    THEN Raise(S, "NotImplementedError")
    ELSE IF mapping[self.category][2] # ""
    THEN IF stored
         THEN Ret(Logged(S, <<"get", mapping[self.category][1], self.id>>),
                  self.id, FALSE)
         ELSE Ret(Logged(Logged(S, <<"get", mapping[self.category][1], self.id>>),
                         <<mapping[self.category][2], mapping[self.category][1],
                           self.id>>),
                  self.id, TRUE)
    ELSE get_or_create_esi(S, mapping[self.category][1], self.id, include_children,
                           wait_for_children, MaxDepth)

(* the promotion with stations mapped as well *)
get_or_create_pendant_object_with_station(S, self, include_children, wait_for_children, stored) ==
    PendantObject(S, self, include_children, wait_for_children, stored,
                  map_category_2_other @@ (Category.station :> <<"EveStation", "">>))

(* entity.get_or_create_pendant_object(include_children=..., wait_for_children=...) *)
get_or_create_pendant_object(S, self, include_children, wait_for_children, stored) ==
    PendantObject(S, self, include_children, wait_for_children, stored,
                  map_category_2_other)

-----------------------------------------------------------------------------
(* Configurations and remote datasets.  The ids are those of the test      *)
(* suite (tests/test_models.py); names and other scalars are integer codes.*)

AllOff ==
    [EVEUNIVERSE_LOAD_ASTEROID_BELTS |-> FALSE, EVEUNIVERSE_LOAD_DOGMAS |-> FALSE,
     EVEUNIVERSE_LOAD_GRAPHICS |-> FALSE, EVEUNIVERSE_LOAD_MARKET_GROUPS |-> FALSE,
     EVEUNIVERSE_LOAD_MOONS |-> FALSE, EVEUNIVERSE_LOAD_PLANETS |-> FALSE,
     EVEUNIVERSE_LOAD_STARGATES |-> FALSE, EVEUNIVERSE_LOAD_STARS |-> FALSE,
     EVEUNIVERSE_LOAD_STATIONS |-> FALSE]

(* the map with moons and stargates enabled, without and with planets *)
MapSettings ==
    {[AllOff EXCEPT !.EVEUNIVERSE_LOAD_MOONS = TRUE,
                    !.EVEUNIVERSE_LOAD_STARGATES = TRUE,
                    !.EVEUNIVERSE_LOAD_PLANETS = p] : p \in BOOLEAN}

MapData ==
    ("Universe.get_universe_regions_region_id" :>
        ((10000069 :> [region_id |-> 10000069, name |-> 11, description |-> 12,
                      constellations |-> <<20000785>>])))
    @@ ("Universe.get_universe_constellations_constellation_id" :>
        ((20000785 :> [constellation_id |-> 20000785, name |-> 13,
                      region_id |-> 10000069, position |-> [x |-> 14],
                      systems |-> <<30045339, 30045342>>])))
    @@ ("Universe.get_universe_systems_system_id" :>
        ((30045339 :> [system_id |-> 30045339, name |-> 15,
                      constellation_id |-> 20000785, security_status |-> 3,
                      position |-> [x |-> 16],
                      planets |-> <<[planet_id |-> 40349467, moons |-> <<40349468>>]>>,
                      stargates |-> <<50016284>>])
        @@ (30045342 :> [system_id |-> 30045342, name |-> 17,
                      constellation_id |-> 20000785, security_status |-> 3,
                      position |-> [x |-> 18],
                      stargates |-> <<50016283>>])))
    @@ ("Universe.get_universe_planets_planet_id" :>
        ((40349467 :> [planet_id |-> 40349467, name |-> 19, system_id |-> 30045339,
                      type_id |-> 2016, position |-> [x |-> 20]])))
    @@ ("Universe.get_universe_moons_moon_id" :>
        ((40349468 :> [moon_id |-> 40349468, name |-> 21, system_id |-> 30045339,
                      position |-> [x |-> 22]])))
    @@ ("Universe.get_universe_stargates_stargate_id" :>
        ((50016284 :> [stargate_id |-> 50016284, name |-> 23, system_id |-> 30045339,
                      type_id |-> 16, position |-> [x |-> 24],
                      destination |-> [stargate_id |-> 50016283, system_id |-> 30045342]])
        @@ (50016283 :> [stargate_id |-> 50016283, name |-> 25, system_id |-> 30045342,
                      type_id |-> 16, position |-> [x |-> 26],
                      destination |-> [stargate_id |-> 50016284, system_id |-> 30045339]])))
    @@ ("Universe.get_universe_types_type_id" :>
        ((16 :> [type_id |-> 16, name |-> 27, group_id |-> 10, published |-> 1])
        @@ (2016 :> [type_id |-> 2016, name |-> 28, group_id |-> 7, published |-> 1])))
    @@ ("Universe.get_universe_groups_group_id" :>
        ((10 :> [group_id |-> 10, name |-> 29, category_id |-> 2, published |-> 1,
                types |-> <<16>>])
        @@ (7 :> [group_id |-> 7, name |-> 30, category_id |-> 2, published |-> 1,
                types |-> <<2016>>])))
    @@ ("Universe.get_universe_categories_category_id" :>
        ((2 :> [category_id |-> 2, name |-> 31, published |-> 1, groups |-> <<7, 10>>])))

(* the calls a client of the map makes:                                    *)
(* <<model, id, include_children, wait_for_children>>                      *)
MapCalls ==
    {<<"EveSolarSystem", 30045339>>, <<"EvePlanet", 40349467>>}
        \X BOOLEAN \X BOOLEAN

(* the calls a client of the stargate network makes *)
GateCalls ==
    {<<"EveStargate", 50016284>>, <<"EveStargate", 50016283>>,
     <<"EveSolarSystem", 30045342>>} \X BOOLEAN \X BOOLEAN

GateEdits == {<<"EveStargate", 50016284>>}

(* the records a client edits locally (obj.name = "Dummy"; obj.save()) *)
MapEdits == {<<"EveMoon", 40349468>>}

(* types with their dogma, graphics and market groups, all on or all off *)
TypeSettings ==
    {[AllOff EXCEPT !.EVEUNIVERSE_LOAD_DOGMAS = b,
                    !.EVEUNIVERSE_LOAD_GRAPHICS = b,
                    !.EVEUNIVERSE_LOAD_MARKET_GROUPS = b] : b \in BOOLEAN}

(* the remote data around type 603 that stays as it is *)
TypeContext ==
    ("Universe.get_universe_categories_category_id" :>
        ((6 :> [category_id |-> 6, name |-> 31, published |-> 1, groups |-> <<25>>])))
    @@ ("Universe.get_universe_groups_group_id" :>
        ((25 :> [group_id |-> 25, name |-> 32, category_id |-> 6, published |-> 1,
                 types |-> <<603>>])))
    @@ ("Universe.get_universe_graphics_graphic_id" :>
        ((314 :> [graphic_id |-> 314, graphic_file |-> 33])))
    @@ ("Market.get_markets_groups_market_group_id" :>
        ((61 :> [market_group_id |-> 61, name |-> 34, description |-> 35,
                 parent_group_id |-> 4, types |-> <<603>>])
        @@ (4 :> [market_group_id |-> 4, name |-> 36, description |-> 37])))
    @@ ("Dogma.get_dogma_attributes_attribute_id" :>
        ((588 :> [attribute_id |-> 588, name |-> 38, unit_id |-> 108, published |-> 1])
        @@ (129 :> [attribute_id |-> 129, name |-> 39, unit_id |-> 205,
                    published |-> 1])))

(* type 603 and its two effects; the second effect has two modifiers of    *)
(* the same func                                                           *)
TypeData ==
    TypeContext
    @@ ("Universe.get_universe_types_type_id" :>
        ((603 :> [type_id |-> 603, name |-> 40, capacity |-> 150, group_id |-> 25,
                  graphic_id |-> 314, market_group_id |-> 61, published |-> 1,
                  dogma_attributes |-> <<[attribute_id |-> 588, value |-> 5],
                                         [attribute_id |-> 129, value |-> 12]>>,
                  dogma_effects |-> <<[effect_id |-> 1816, is_default |-> 0],
                                      [effect_id |-> 1817, is_default |-> 1]>>])))
    @@ ("Dogma.get_dogma_effects_effect_id" :>
        ((1816 :> [effect_id |-> 1816, name |-> 41,
                   modifiers |-> <<[func |-> 43, domain |-> 44,
                                    modified_attribute_id |-> 588, operator |-> 6]>>])
        @@ (1817 :> [effect_id |-> 1817, name |-> 42,
                     modifiers |-> <<[func |-> 43, domain |-> 44,
                                      modified_attribute_id |-> 588, operator |-> 6],
                                     [func |-> 43, domain |-> 44,
                                      modified_attribute_id |-> 129,
                                      operator |-> 6]>>])))

(* the same after the remote side has changed type 603: capacity and       *)
(* market_group_id are gone, attribute 588 has a new value, attribute 129  *)
(* is no longer listed                                                     *)
TypeData2 ==
    ("Universe.get_universe_types_type_id" :>
        ((603 :> [type_id |-> 603, name |-> 40, group_id |-> 25,
                  graphic_id |-> 314, published |-> 1,
                  dogma_attributes |-> <<[attribute_id |-> 588, value |-> 7]>>,
                  dogma_effects |-> <<[effect_id |-> 1816, is_default |-> 0],
                                      [effect_id |-> 1817, is_default |-> 1]>>])))
    @@ TypeData

(* the calls a client of the types makes *)
TypeCalls ==
    {<<<<"EveType", 603>>, FALSE, TRUE>>,
     <<<<"EveDogmaEffect", 1817>>, FALSE, TRUE>>,
     <<<<"EveMarketGroup", 61>>, FALSE, TRUE>>,
     <<<<"EveDogmaAttribute", 129>>, FALSE, TRUE>>,
     <<<<"EveCategory", 6>>, TRUE, TRUE>>,
     <<<<"EveCategory", 6>>, TRUE, FALSE>>}

(* the units the application ships with (EveUnit has no remote endpoint) *)
Units == (108 :> NewRow("EveUnit", [id |-> 108, name |-> 45]))

(* the list endpoints of ancestries, bloodlines and races, and the objects *)
(* a bloodline's ship type needs                                           *)
ListData ==
    ("Universe.get_universe_ancestries" :>
        ((NoArgs :> <<[id |-> 8, name |-> 51, bloodline_id |-> 2, description |-> 52,
                       icon_id |-> 53, short_description |-> 54],
                      [id |-> 13, name |-> 55, bloodline_id |-> 2,
                       description |-> 56]>>)))
    @@ ("Universe.get_universe_bloodlines" :>
        ((NoArgs :> <<[bloodline_id |-> 1, name |-> 57, race_id |-> 1,
                       ship_type_id |-> 603, description |-> 58],
                      [bloodline_id |-> 2, name |-> 59, race_id |-> 1,
                       ship_type_id |-> 603, description |-> 60]>>)))
    @@ ("Universe.get_universe_races" :>
        ((NoArgs :> <<[race_id |-> 1, name |-> 61, alliance_id |-> 62,
                       description |-> 63]>>)))
    @@ ("Universe.get_universe_types_type_id" :>
        ((603 :> [type_id |-> 603, name |-> 40, capacity |-> 150, group_id |-> 25,
                  published |-> 1])))
    @@ TypeContext

(* the calls a client of the list-only kinds makes; ancestry 1 and race 9  *)
(* are not in the lists                                                    *)
ListCalls ==
    {<<"EveAncestry", 8>>, <<"EveAncestry", 13>>, <<"EveAncestry", 1>>,
     <<"EveBloodline", 2>>, <<"EveRace", 1>>, <<"EveRace", 9>>}
        \X {FALSE} \X BOOLEAN

ListEdits == {<<"EveAncestry", 8>>}

-----------------------------------------------------------------------------
(* The state machine.  A step is one call of a client (or of the job       *)
(* worker) into the manager, a local edit of a record, or a change of the  *)
(* remote data.                                                            *)

Start == [db |-> db, inl |-> inl, jobs |-> jobs, log |-> <<>>]

(* The record of a step.  again: the step repeats the call of the step    *)
(* before it, which had created the record.                                *)
NoCall ==
    [op |-> "none", model |-> "", id |-> NULL, include_children |-> FALSE,
     wait_for_children |-> FALSE, err |-> NoError, obj |-> NULL, created |-> FALSE,
     again |-> FALSE, log |-> <<>>]

Called(op, model, id, include_children, wait_for_children, r) ==
    [op |-> op, model |-> model, id |-> id, include_children |-> include_children,
     wait_for_children |-> wait_for_children, err |-> r.err, obj |-> r.val,
     created |-> r.created,
     again |-> /\ last.op = op /\ last.model = model /\ last.id = id
               /\ last.include_children = include_children
               /\ last.wait_for_children = wait_for_children
               /\ last.err = NoError /\ last.created,
     log |-> r.S.log]

(* nothing cached: no route under any key, no edge set *)
EmptyCache == [routes |-> <<>>, edges |-> <<>>]

NoRun == [active |-> FALSE, model |-> "", id |-> NULL, sync |-> <<>>]

(* what the blocking twin of a call leaves behind *)
Outcome(r) == [db |-> r.S.db, inl |-> r.S.inl, err |-> r.err]

(* The blocking twin of a call that hands its children to the job queue:   *)
(* the same call, from the same store, with wait_for_children = True.      *)
Twin(model, id) ==
    [active |-> TRUE, model |-> model, id |-> id,
     sync |-> Outcome(update_or_create_esi(Start, model, id, TRUE, TRUE, MaxDepth))]

InitStore ==
    /\ db = [m \in EntityModels |-> <<>>]
    /\ inl = [m \in AutoPkTables |-> <<>>]
    /\ jobs = EmptyBag
    /\ last = NoCall
    /\ run = NoRun
    /\ cache = EmptyCache

(* the effects of a call become the next state; the queue holds at most    *)
(* MaxJobs jobs                                                            *)
Commit(op, model, id, include_children, wait_for_children, r) ==
    /\ BagCardinality(r.S.jobs) <= MaxJobs
    /\ db' = r.S.db
    /\ inl' = r.S.inl
    /\ jobs' = r.S.jobs
    /\ last' = Called(op, model, id, include_children, wait_for_children, r)
    /\ UNCHANGED <<esi, settings, cache>>

(* a client calls Model.objects.update_or_create_esi(id=id, ...) *)
CallUpdateOrCreateEsi(model, id, include_children, wait_for_children) ==
    /\ Commit("update_or_create_esi", model, id, include_children, wait_for_children,
              update_or_create_esi(Start, model, id, include_children,
                                   wait_for_children, MaxDepth))
    /\ run' = IF include_children /\ ~wait_for_children /\ jobs = EmptyBag
              THEN Twin(model, id) ELSE NoRun

(* a client calls Model.objects.get_or_create_esi(id=id, ...) *)
CallGetOrCreateEsi(model, id, include_children, wait_for_children) ==
    /\ Commit("get_or_create_esi", model, id, include_children, wait_for_children,
              get_or_create_esi(Start, model, id, include_children,
                                wait_for_children, MaxDepth))
    /\ run' = NoRun

(* the worker takes one submitted job, in any order, and runs it *)
RunLoadEveObject(job) ==
    /\ BagIn(job, jobs)
    /\ Commit("load_eve_object", job.model_name, job.id, job.include_children,
              job.wait_for_children,
              load_eve_object([Start EXCEPT !.jobs = @ (-) SetToBag({job})],
                              job.model_name, job.id, job.include_children,
                              job.wait_for_children))
    /\ run' = run

(* a client edits a record locally: obj.name = "Dummy"; obj.save() *)
LocalSave(model, id) ==
    /\ id \in DOMAIN db[model]
    /\ db[model][id].name # Dummy
    /\ db' = [db EXCEPT ![model][id].name = Dummy]
    /\ last' = [NoCall EXCEPT !.op = "save", !.model = model, !.id = id]
    /\ run' = NoRun
    /\ UNCHANGED <<inl, jobs, esi, settings, cache>>

InitMap ==
    /\ InitStore
    /\ esi = MapData
    /\ settings \in MapSettings

NextMap ==
    \/ \E c \in MapCalls : CallUpdateOrCreateEsi(c[1][1], c[1][2], c[2], c[3])
    \/ \E c \in MapCalls : CallGetOrCreateEsi(c[1][1], c[1][2], c[2], c[3])
    \/ \E job \in BagToSet(jobs) : RunLoadEveObject(job)
    \/ \E t \in MapEdits : LocalSave(t[1], t[2])

SpecMap == InitMap /\ [][NextMap]_vars

InitGates ==
    /\ InitStore
    /\ esi = MapData
    /\ settings = [AllOff EXCEPT !.EVEUNIVERSE_LOAD_STARGATES = TRUE]

NextGates ==
    \/ \E c \in GateCalls : CallUpdateOrCreateEsi(c[1][1], c[1][2], c[2], c[3])
    \/ \E c \in GateCalls : CallGetOrCreateEsi(c[1][1], c[1][2], c[2], c[3])
    \/ \E job \in BagToSet(jobs) : RunLoadEveObject(job)
    \/ \E t \in GateEdits : LocalSave(t[1], t[2])

SpecGates == InitGates /\ [][NextGates]_vars

(* the remote side changes the data of type 603 *)
EsiChanges ==
    /\ esi = TypeData
    /\ esi' = TypeData2
    /\ last' = [NoCall EXCEPT !.op = "esi"]
    /\ run' = NoRun
    /\ UNCHANGED <<db, inl, jobs, settings, cache>>

InitType ==
    /\ db = [m \in EntityModels |-> IF m = "EveUnit" THEN Units ELSE <<>>]
    /\ inl = [m \in AutoPkTables |-> <<>>]
    /\ jobs = EmptyBag
    /\ last = NoCall
    /\ run = NoRun
    /\ cache = EmptyCache
    /\ esi = TypeData
    /\ settings \in TypeSettings

NextType ==
    \/ \E c \in TypeCalls : CallUpdateOrCreateEsi(c[1][1], c[1][2], c[2], c[3])
    \/ \E c \in TypeCalls : CallGetOrCreateEsi(c[1][1], c[1][2], c[2], c[3])
    \/ \E job \in BagToSet(jobs) : RunLoadEveObject(job)
    \/ EsiChanges

SpecType == InitType /\ [][NextType]_vars

InitList ==
    /\ InitStore
    /\ esi = ListData
    /\ settings = AllOff

NextList ==
    \/ \E c \in ListCalls : CallUpdateOrCreateEsi(c[1][1], c[1][2], c[2], c[3])
    \/ \E c \in ListCalls : CallGetOrCreateEsi(c[1][1], c[1][2], c[2], c[3])
    \/ \E t \in ListEdits : LocalSave(t[1], t[2])

SpecList == InitList /\ [][NextList]_vars

(* The raw records handed to _defaults_from_esi_obj: a stargate's answer   *)
(* with the name, the position and the destination absent, null, partial or*)
(* given, and a solar system the remote side knows or does not know.       *)
RawName == <<<<>>, [name |-> NULL], [name |-> 23]>>

RawPosition ==
    <<<<>>, [position |-> NoneObject], [position |-> <<>>], [position |-> [x |-> 24]]>>

RawDestination ==
    <<<<>>, [destination |-> NoneObject], [destination |-> [stargate_id |-> 50016283]],
      [destination |-> [stargate_id |-> 50016283, system_id |-> 30045342]]>>

RawSystem == <<[system_id |-> 30045339], [system_id |-> 30000001]>>

RawRecord(n, p, d, s) ==
    RawName[n] @@ RawPosition[p] @@ RawDestination[d] @@ RawSystem[s]
        @@ [stargate_id |-> 50016284, type_id |-> 16]

(* the outcome of _defaults_from_esi_obj becomes the next state *)
CommitDefaults(model, eve_data_obj, r) ==
    /\ db' = r.S.db
    /\ inl' = r.S.inl
    /\ jobs' = r.S.jobs
    /\ last' = [op |-> "_defaults_from_esi_obj", model |-> model,
                eve_data_obj |-> eve_data_obj, err |-> r.err,
                defaults |-> r.val, log |-> r.S.log]
    /\ run' = NoRun
    /\ UNCHANGED <<esi, settings, cache>>

(* the manager compiles the defaults of a raw record *)
CallDefaultsFromEsiObj(model, eve_data_obj) ==
    CommitDefaults(model, eve_data_obj,
                   _defaults_from_esi_obj(Start, model, eve_data_obj, MaxDepth))

InitDefaults ==
    /\ InitStore
    /\ esi = MapData
    /\ settings = AllOff

NextDefaults ==
    \/ \E n \in DOMAIN RawName, p \in DOMAIN RawPosition,
          d \in DOMAIN RawDestination, s \in DOMAIN RawSystem :
            CallDefaultsFromEsiObj("EveStargate", RawRecord(n, p, d, s))
    \/ CallUpdateOrCreateEsi("EveStargate", 50016283, FALSE, TRUE)

SpecDefaults == InitDefaults /\ [][NextDefaults]_vars

(* two remote datasets as one: the paths of both, the records of both     *)
(* under a path of both, those of the first taking precedence              *)
Merged(a, b) ==
    [path \in DOMAIN a \cup DOMAIN b |->
        IF path \in DOMAIN a /\ path \in DOMAIN b THEN a[path] @@ b[path]
        ELSE IF path \in DOMAIN a THEN a[path] ELSE b[path]]

(* the map with everything a load flag gates: solar system 30045339 with   *)
(* its star, a station, a stargate and a planet with a moon and an         *)
(* asteroid belt; the planet's type with a graphic, a market group and     *)
(* dogma                                                                   *)
FlagData ==
    Merged(
        ("Universe.get_universe_systems_system_id" :>
            ((30045339 :> [system_id |-> 30045339, name |-> 15,
                          constellation_id |-> 20000785, security_status |-> 3,
                          position |-> [x |-> 16], star_id |-> 40349466,
                          planets |-> <<[planet_id |-> 40349467,
                                         moons |-> <<40349468>>,
                                         asteroid_belts |-> <<40349487>>]>>,
                          stargates |-> <<50016284>>,
                          stations |-> <<60015068>>])))
        @@ ("Universe.get_universe_stars_star_id" :>
            ((40349466 :> [star_id |-> 40349466, name |-> 64, type_id |-> 16,
                          spectral_class |-> 65])))
        @@ ("Universe.get_universe_asteroid_belts_asteroid_belt_id" :>
            ((40349487 :> [asteroid_belt_id |-> 40349487, name |-> 66,
                          system_id |-> 30045339, position |-> [x |-> 67]])))
        @@ ("Universe.get_universe_stations_station_id" :>
            ((60015068 :> [station_id |-> 60015068, name |-> 68, system_id |-> 30045339,
                          type_id |-> 16, race_id |-> 1, owner |-> 1000180,
                          max_dockable_ship_volume |-> 69, position |-> [x |-> 70],
                          services |-> <<71, 72>>])))
        @@ ("Universe.get_universe_races" :> ListData["Universe.get_universe_races"])
        @@ ("Universe.get_universe_types_type_id" :>
            ((2016 :> [type_id |-> 2016, name |-> 28, group_id |-> 7, published |-> 1,
                      graphic_id |-> 314, market_group_id |-> 4,
                      dogma_attributes |-> <<[attribute_id |-> 588, value |-> 5]>>,
                      dogma_effects |-> <<[effect_id |-> 1816, is_default |-> 1]>>]))),
        Merged(MapData, TypeData))

AllOn == [f \in DOMAIN AllOff |-> TRUE]

(* one load flag off and all others on, with planets on and off *)
FlagSettings ==
    {[AllOn EXCEPT ![f] = FALSE,
                   !.EVEUNIVERSE_LOAD_PLANETS = p /\ f # "EVEUNIVERSE_LOAD_PLANETS"] :
        f \in DOMAIN AllOff, p \in BOOLEAN}

(* the calls on the kinds whose loading the flags gate, all blocking *)
FlagCalls ==
    {<<"EveSolarSystem", 30045339>>, <<"EvePlanet", 40349467>>, <<"EveType", 2016>>}
        \X BOOLEAN \X {TRUE}

InitFlags ==
    /\ db = [m \in EntityModels |-> IF m = "EveUnit" THEN Units ELSE <<>>]
    /\ inl = [m \in AutoPkTables |-> <<>>]
    /\ jobs = EmptyBag
    /\ last = NoCall
    /\ run = NoRun
    /\ cache = EmptyCache
    /\ esi = FlagData
    /\ settings \in FlagSettings

NextFlags ==
    \/ \E c \in FlagCalls : CallUpdateOrCreateEsi(c[1][1], c[1][2], c[2], c[3])
    \/ \E c \in FlagCalls : CallGetOrCreateEsi(c[1][1], c[1][2], c[2], c[3])

SpecFlags == InitFlags /\ [][NextFlags]_vars

-----------------------------------------------------------------------------
(* models.py: EveSolarSystem.distance_to, route_to, jumps_to.  A security  *)
(* status is kept in tenths (3 is 0.3); of a position only x is kept, so   *)
(* the Euclidean distance is the absolute difference of the x values.      *)

(* no solar system counts as wormhole space *)
is_w_space_never(id) == FALSE

(* EveSolarSystem.is_w_space *)
is_w_space(id) == 31000000 <= id /\ id < 32000000

(* the rows of EveStargate.objects.filter(destination_eve_solar_system__isnull=False) *)
ConnectedGates ==
    {id \in DOMAIN db["EveStargate"] :
        db["EveStargate"][id].destination_eve_solar_system # NULL}

(* jumps(): the pairs (eve_solar_system_id, destination_eve_solar_system_id) *)
jumps ==
    {<<db["EveStargate"][id].eve_solar_system,
       db["EveStargate"][id].destination_eve_solar_system>> : id \in ConnectedGates}

(* jumps_excluding_high_sec(): the same of the gates whose two solar        *)
(* systems have a security status below 0.5                                *)
jumps_excluding_high_sec ==
    {jump \in jumps :
        /\ db["EveSolarSystem"][jump[1]].security_status < 5
        /\ db["EveSolarSystem"][jump[2]].security_status < 5}

(* cache.get_or_set("EVESDE_STARGATES[_NO_HIGHSEC]", ...): the cached edge  *)
(* set, else the query's answer                                            *)
jumps_qs(exclude_high_sec) ==
    IF exclude_high_sec \in DOMAIN cache.edges THEN cache.edges[exclude_high_sec]
    ELSE IF exclude_high_sec THEN jumps_excluding_high_sec ELSE jumps

(* g = nx.Graph(); g.add_edge(jump[0], jump[1]) for every jump *)
Nodes(edges) == {jump[1] : jump \in edges} \cup {jump[2] : jump \in edges}

Adjacent(edges, a, b) == <<a, b>> \in edges \/ <<b, a>> \in edges

(* the walks of n edges from a to b *)
Walks(edges, a, b, n) ==
    {path \in [1..(n + 1) -> Nodes(edges)] :
        /\ path[1] = a
        /\ path[n + 1] = b
        /\ \A i \in 1..n : Adjacent(edges, path[i], path[i + 1])}

(* the lengths of the walks from a to b, up to the longest simple path *)
WalkLengths(edges, a, b) ==
    {n \in 0..(Cardinality(Nodes(edges)) - 1) : Walks(edges, a, b, n) # {}}

(* a longest of the bounded walks instead of a shortest *)
nx_longest_walk(edges, source, target) ==
    IF source \notin Nodes(edges) \/ target \notin Nodes(edges) THEN {<<>>}
    ELSE IF WalkLengths(edges, source, target) = {} THEN {<<>>}
    ELSE Walks(edges, source, target,
               CHOOSE n \in WalkLengths(edges, source, target) :
                    \A m \in WalkLengths(edges, source, target) : m <= n)

(* nx.shortest_path(g, source, target) inside its try block: one of the    *)
(* shortest paths, or [] for NodeNotFound and NetworkXNoPath               *)
nx_shortest_path(edges, source, target) ==
    IF source \notin Nodes(edges) \/ target \notin Nodes(edges) THEN {<<>>}
    ELSE IF WalkLengths(edges, source, target) = {} THEN {<<>>}
    ELSE Walks(edges, source, target, Min(WalkLengths(edges, source, target)))

(* a key without the flag *)
cache_route_key_unflagged(origin, destination, exclude_high_sec) ==
    <<origin, destination, FALSE>>

(* f"EVESDE_ROUTE_{self.id}_{destination.id}_{exclude_high_sec}" *)
cache_route_key(origin, destination, exclude_high_sec) ==
    <<origin, destination, exclude_high_sec>>

(* EveSolarSystem._shortest_path_to: the paths it can return *)
_shortest_path_to(origin, destination, exclude_high_sec) ==
    IF is_w_space(origin) \/ is_w_space(destination) THEN {<<>>}
    ELSE IF cache_route_key(origin, destination, exclude_high_sec) \in DOMAIN cache.routes
    THEN {cache.routes[cache_route_key(origin, destination, exclude_high_sec)]}
    ELSE nx_shortest_path(jumps_qs(exclude_high_sec), origin, destination)

(* EveSolarSystem._shortest_path_to: the cache it leaves when it returns   *)
(* path                                                                    *)
_shortest_path_to_cache(origin, destination, exclude_high_sec, path) ==
    IF is_w_space(origin) \/ is_w_space(destination) THEN cache
    ELSE IF cache_route_key(origin, destination, exclude_high_sec) \in DOMAIN cache.routes
    THEN cache
    ELSE [routes |-> (cache_route_key(origin, destination, exclude_high_sec) :> path)
                        @@ cache.routes,
          edges |-> (exclude_high_sec :> jumps_qs(exclude_high_sec)) @@ cache.edges]

(* the record of a query: none tells that None was returned *)
Asked(op, origin, destination, exclude_high_sec, err, none, val) ==
    [op |-> op, origin |-> origin, destination |-> destination,
     exclude_high_sec |-> exclude_high_sec, err |-> err, none |-> none, val |-> val]

(* origin.jumps_to(destination, exclude_high_sec) *)
JumpsTo(origin, destination, exclude_high_sec) ==
    /\ {origin, destination} \subseteq DOMAIN db["EveSolarSystem"]
    /\ \E path \in _shortest_path_to(origin, destination, exclude_high_sec) :
          /\ cache' = _shortest_path_to_cache(origin, destination, exclude_high_sec, path)
          /\ last' = Asked("jumps_to", origin, destination, exclude_high_sec, NoError,
                           path = <<>>, IF path = <<>> THEN NULL ELSE Len(path) - 1)
    /\ UNCHANGED <<db, inl, jobs, esi, settings, run>>

(* origin.route_to(destination, exclude_high_sec): the solar systems of the *)
(* path, looked up by id                                                   *)
RouteTo(origin, destination, exclude_high_sec) ==
    /\ {origin, destination} \subseteq DOMAIN db["EveSolarSystem"]
    /\ \E path \in _shortest_path_to(origin, destination, exclude_high_sec) :
          /\ cache' = _shortest_path_to_cache(origin, destination, exclude_high_sec, path)
          /\ last' = Asked("route_to", origin, destination, exclude_high_sec, NoError,
                           path = <<>>, path)
    /\ UNCHANGED <<db, inl, jobs, esi, settings, run>>

Abs(n) == IF n < 0 THEN 0 - n ELSE n

(* origin.distance_to(destination) *)
DistanceTo(origin, destination) ==
    /\ {origin, destination} \subseteq DOMAIN db["EveSolarSystem"]
    /\ last' =
         IF is_w_space(origin) \/ is_w_space(destination)
         THEN Asked("distance_to", origin, destination, FALSE, NoError, TRUE, NULL)
         ELSE IF NULL \in {db["EveSolarSystem"][origin].position_x,
                          db["EveSolarSystem"][destination].position_x}
         THEN Asked("distance_to", origin, destination, FALSE, "TypeError", FALSE, NULL)
         ELSE Asked("distance_to", origin, destination, FALSE, NoError, FALSE,
                    Abs(db["EveSolarSystem"][destination].position_x
                            - db["EveSolarSystem"][origin].position_x))
    /\ UNCHANGED <<db, inl, jobs, esi, settings, run, cache>>

(* the cached entries time out (ROUTE_CACHE_DURATION) *)
CacheExpires ==
    /\ cache # EmptyCache
    /\ cache' = EmptyCache
    /\ last' = [NoCall EXCEPT !.op = "cache"]
    /\ UNCHANGED <<db, inl, jobs, esi, settings, run>>

(* a function without one of its keys *)
Without(f, key) ==
    IF DOMAIN f = {key} THEN <<>> ELSE [k \in DOMAIN f \ {key} |-> f[k]]

(* one cached route times out: every entry has its own timeout, counted    *)
(* from the cache.set that stored it                                       *)
RouteExpires(key) ==
    /\ key \in DOMAIN cache.routes
    /\ cache' = [cache EXCEPT !.routes = Without(@, key)]
    /\ last' = [NoCall EXCEPT !.op = "cache"]
    /\ UNCHANGED <<db, inl, jobs, esi, settings, run>>

(* one cached edge set times out *)
EdgesExpire(exclude_high_sec) ==
    /\ exclude_high_sec \in DOMAIN cache.edges
    /\ cache' = [cache EXCEPT !.edges = Without(@, exclude_high_sec)]
    /\ last' = [NoCall EXCEPT !.op = "cache"]
    /\ UNCHANGED <<db, inl, jobs, esi, settings, run>>

(* a stargate loses its destination: gate.destination_eve_solar_system =   *)
(* None; gate.save()                                                       *)
GateCloses(id) ==
    /\ id \in ConnectedGates
    /\ db' = [db EXCEPT !["EveStargate"][id].destination_eve_solar_system = NULL,
                        !["EveStargate"][id].destination_eve_stargate = NULL]
    /\ last' = [NoCall EXCEPT !.op = "save", !.model = "EveStargate", !.id = id]
    /\ UNCHANGED <<inl, jobs, esi, settings, run, cache>>

(* Enaluri and Akidagi (low security), Jita (high security) and Thera      *)
(* (wormhole space, without a position)                                    *)
RouteSystems ==
    (30045339 :> NewRow("EveSolarSystem",
                        [id |-> 30045339, name |-> 15, eve_constellation |-> 20000785,
                         position_x |-> 16, security_status |-> 3]))
    @@ (30045342 :> NewRow("EveSolarSystem",
                        [id |-> 30045342, name |-> 17, eve_constellation |-> 20000785,
                         position_x |-> 18, security_status |-> 3]))
    @@ (30000142 :> NewRow("EveSolarSystem",
                        [id |-> 30000142, name |-> 73, eve_constellation |-> 20000020,
                         position_x |-> 74, security_status |-> 9]))
    @@ (31000005 :> NewRow("EveSolarSystem",
                        [id |-> 31000005, name |-> 75, eve_constellation |-> 21000324,
                         security_status |-> -10]))

Gate(id, name, system, destination_system) ==
    NewRow("EveStargate",
           [id |-> id, name |-> name, eve_solar_system |-> system, eve_type |-> 16,
            destination_eve_solar_system |-> destination_system])

(* the stargates that may be stored: Enaluri - Akidagi and back, Akidagi - *)
(* Jita, one out of Thera, and one in Enaluri whose destination is unknown *)
RouteGates ==
    (50016284 :> Gate(50016284, 23, 30045339, 30045342))
    @@ (50016283 :> Gate(50016283, 25, 30045342, 30045339))
    @@ (50000056 :> Gate(50000056, 76, 30045342, 30000142))
    @@ (50000057 :> Gate(50000057, 77, 31000005, 30045339))
    @@ (50000058 :> Gate(50000058, 78, 30045339, NULL))

(* the stored gate sets a behaviour starts from *)
RouteStores ==
    {[id \in ids \cup {50000058} |-> RouteGates[id]] :
        ids \in {{}, {50016284, 50016283}, {50016284, 50016283, 50000056},
                 {50000056}, {50016284, 50000057},
                 {50016284, 50016283, 50000056, 50000057}}}

(* the queries of a client: <<origin, destination, exclude_high_sec>> *)
RouteCalls ==
    {<<30045339, 30045342, FALSE>>, <<30045339, 30000142, FALSE>>,
     <<30045339, 30000142, TRUE>>, <<30000142, 30000142, FALSE>>,
     <<30045339, 31000005, FALSE>>, <<31000005, 30045342, FALSE>>,
     <<30045342, 30045339, FALSE>>}

RouteEdits == {50000056}

InitRoutes ==
    /\ \E gates \in RouteStores :
          db = [m \in EntityModels |->
                   IF m = "EveSolarSystem" THEN RouteSystems
                   ELSE IF m = "EveStargate" THEN gates ELSE <<>>]
    /\ inl = [m \in AutoPkTables |-> <<>>]
    /\ jobs = EmptyBag
    /\ last = NoCall
    /\ run = NoRun
    /\ cache = EmptyCache
    /\ esi = MapData
    /\ settings = AllOff

NextRoutes ==
    \/ \E c \in RouteCalls : JumpsTo(c[1], c[2], c[3])
    \/ \E c \in RouteCalls : RouteTo(c[1], c[2], c[3])
    \/ \E c \in RouteCalls : DistanceTo(c[1], c[2])
    \/ CacheExpires
    \/ \E c \in RouteCalls : RouteExpires(c)
    \/ \E b \in BOOLEAN : EdgesExpire(b)
    \/ \E id \in RouteEdits : GateCloses(id)

SpecRoutes == InitRoutes /\ [][NextRoutes]_vars

(* the remote side for whole-kind loads: the list of regions over the map, *)
(* and the races                                                           *)
AllData ==
    ("Universe.get_universe_regions" :> ((NoArgs :> <<10000069>>)))
    @@ ("Universe.get_universe_races" :> ListData["Universe.get_universe_races"])
    @@ MapData

(* the kinds a client loads as a whole: one list-only kind, one with a     *)
(* list endpoint (with its children only when blocking) and one without:   *)
(* <<model, include_children, wait_for_children>>                          *)
AllCalls ==
    ({"EveRace", "EveRegion", "EveMoon"} \X BOOLEAN \X BOOLEAN)
        \ {<<"EveRegion", TRUE, FALSE>>}

AllEdits == {<<"EveRace", 1>>}

(* a client calls Model.objects.update_or_create_all_esi(...) *)
CallUpdateOrCreateAllEsi(model, include_children, wait_for_children) ==
    /\ Commit("update_or_create_all_esi", model, NULL, include_children,
              wait_for_children,
              update_or_create_all_esi(Start, model, include_children,
                                       wait_for_children, MaxDepth))
    /\ run' = NoRun

InitAll ==
    /\ InitStore
    /\ esi = AllData
    /\ settings = AllOff

NextAll ==
    \/ \E c \in AllCalls : CallUpdateOrCreateAllEsi(c[1], c[2], c[3])
    \/ \E job \in BagToSet(jobs) : RunLoadEveObject(job)
    \/ \E t \in AllEdits : LocalSave(t[1], t[2])

SpecAll == InitAll /\ [][NextAll]_vars

-----------------------------------------------------------------------------
(* The entity resolver on the names of the test suite: two characters, a   *)
(* corporation and the id 9999 the endpoint does not resolve.              *)

EntityData ==
    "Universe.post_universe_names" :>
        ((1001 :> [id |-> 1001, name |-> 81, category |-> Category.character])
         @@ (1002 :> [id |-> 1002, name |-> 82, category |-> Category.character])
         @@ (2001 :> [id |-> 2001, name |-> 83, category |-> Category.corporation]))

EntityIds == {1001, 1002, 2001, 9999}

(* EveEntity.objects.create(id=...): rows without a name, and 1001 under   *)
(* an outdated name and category                                            *)
EntityCreates ==
    {[id |-> 1001, name |-> 84, category |-> Category.corporation],
     [id |-> 1001, name |-> EMPTY, category |-> NULL],
     [id |-> 2001, name |-> EMPTY, category |-> NULL],
     [id |-> 9999, name |-> EMPTY, category |-> NULL]}

(* the record of a resolver call: the ids asked for, the table before it,  *)
(* the count returned and the remote calls made                            *)
Resolved(op, ids, r) ==
    [op |-> op, ids |-> ids, before |-> db["EveEntity"], err |-> r.err,
     val |-> r.val, log |-> r.S.log]

CommitEntities(op, ids, r) ==
    /\ db' = r.S.db
    /\ last' = Resolved(op, ids, r)
    /\ UNCHANGED <<inl, jobs, esi, settings, run, cache>>

(* a client calls EveEntity.objects.bulk_create_esi(ids) *)
CallBulkCreateEsi(ids) ==
    CommitEntities("bulk_create_esi", ids, bulk_create_esi(Start, ids))

(* a client calls EveEntity.objects.filter(id__in=ids).update_from_esi() *)
CallUpdateFromEsi(ids) ==
    CommitEntities("update_from_esi", ids, update_from_esi(Start, ids))

(* a client calls EveEntity.objects.create(id=..., name=..., category=...) *)
CreateEntity(row) ==
    /\ row.id \notin DOMAIN db["EveEntity"]
    /\ db' = [db EXCEPT !["EveEntity"] = (row.id :> row) @@ @]
    /\ last' = [op |-> "create", ids |-> {row.id}, before |-> db["EveEntity"],
                err |-> NoError, val |-> NULL, log |-> <<>>]
    /\ UNCHANGED <<inl, jobs, esi, settings, run, cache>>

InitEntities ==
    /\ InitStore
    /\ esi = EntityData
    /\ settings = AllOff

NextEntities ==
    \/ \E ids \in SUBSET EntityIds : CallBulkCreateEsi(ids)
    \/ \E ids \in SUBSET EntityIds : CallUpdateFromEsi(ids)
    \/ \E row \in EntityCreates : CreateEntity(row)

SpecEntities == InitEntities /\ [][NextEntities]_vars

-----------------------------------------------------------------------------
(* Pendant objects over the map: entities with the id of solar system      *)
(* 30045339, of region 10000069 and of type 2016, under every category and *)
(* under none.                                                             *)

PendantEntities ==
    [id : {30045339, 10000069, 2016},
     category : {Category[c] : c \in DOMAIN Category} \cup {NULL}]

Promoted(self, include_children, wait_for_children, r) ==
    [op |-> "get_or_create_pendant_object", id |-> self.id,
     category |-> self.category, include_children |-> include_children,
     wait_for_children |-> wait_for_children, err |-> r.err, obj |-> r.val,
     created |-> r.created, log |-> r.S.log]

CommitPendant(self, include_children, wait_for_children, r) ==
    /\ BagCardinality(r.S.jobs) <= MaxJobs
    /\ db' = r.S.db
    /\ inl' = r.S.inl
    /\ jobs' = r.S.jobs
    /\ last' = Promoted(self, include_children, wait_for_children, r)
    /\ UNCHANGED <<esi, settings, run, cache>>

(* a client calls entity.get_or_create_pendant_object(...) on an entity *)
CallGetOrCreatePendantObject(self, include_children, wait_for_children, stored) ==
    CommitPendant(self, include_children, wait_for_children,
                  get_or_create_pendant_object(Start, self, include_children,
                                               wait_for_children, stored))

InitPendant ==
    /\ InitStore
    /\ esi = MapData
    /\ settings = AllOff

(* <<include_children, wait_for_children>> of the calls: children are     *)
(* loaded within the call or not at all                                    *)
PendantOptions == {<<FALSE, TRUE>>, <<TRUE, TRUE>>, <<FALSE, FALSE>>}

NextPendant ==
    \E self \in PendantEntities, options \in PendantOptions, stored \in BOOLEAN :
        CallGetOrCreatePendantObject(self, options[1], options[2], stored)

SpecPendant == InitPendant /\ [][NextPendant]_vars

-----------------------------------------------------------------------------
(* Stations and their services: station 60015068 of the test suite and a   *)
(* second station of the same solar system; the remote services list of   *)
(* the first may change between calls.                                     *)

StationRecord(id, name, services) ==
    [station_id |-> id, name |-> name, system_id |-> 30045339, type_id |-> 16,
     race_id |-> 1, owner |-> 1000180, max_dockable_ship_volume |-> 69,
     position |-> [x |-> 70], services |-> services]

StationIds == {60015068, 60015069}

(* service names: 71 docking, 72 market, 73 fitting *)
ServiceLists == {<<71, 72>>, <<73>>, <<72, 72>>}

StationData ==
    Merged("Universe.get_universe_stations_station_id" :>
                ((60015068 :> StationRecord(60015068, 68, <<71, 72>>))
                 @@ (60015069 :> StationRecord(60015069, 74, <<72, 73>>))),
           FlagData)

(* the record of a step, with the services list each station carried when  *)
(* it was last upserted                                                    *)
NoStationCall == NoCall @@ [payload |-> <<>>]

(* the effects of a station call become the next state *)
CommitStation(op, id, r) ==
    /\ db' = r.S.db
    /\ inl' = r.S.inl
    /\ jobs' = r.S.jobs
    /\ last' = Called(op, "EveStation", id, FALSE, TRUE, r)
                @@ [payload |->
                        IF r.err = NoError /\ (op = "update_or_create_esi" \/ r.created)
                        THEN (id :> esi["Universe.get_universe_stations_station_id"][id]
                                        .services) @@ last.payload
                        ELSE last.payload]
    /\ UNCHANGED <<esi, settings, run, cache>>

(* a client calls EveStation.objects.update_or_create_esi(id=id) *)
CallStationUpdateOrCreateEsi(id) ==
    CommitStation("update_or_create_esi", id,
                  update_or_create_esi(Start, "EveStation", id, FALSE, TRUE, MaxDepth))

(* a client calls EveStation.objects.get_or_create_esi(id=id) *)
CallStationGetOrCreateEsi(id) ==
    CommitStation("get_or_create_esi", id,
                  get_or_create_esi(Start, "EveStation", id, FALSE, TRUE, MaxDepth))

(* the remote services list of a station changes *)
ServicesChange(id, services) ==
    /\ esi["Universe.get_universe_stations_station_id"][id].services # services
    /\ esi' = [esi EXCEPT !["Universe.get_universe_stations_station_id"][id].services =
                            services]
    /\ last' = [NoStationCall EXCEPT !.op = "remote", !.payload = last.payload]
    /\ UNCHANGED <<db, inl, jobs, settings, run, cache>>

InitStations ==
    /\ db = [m \in EntityModels |-> IF m = "EveUnit" THEN Units ELSE <<>>]
    /\ inl = [m \in AutoPkTables |-> <<>>]
    /\ jobs = EmptyBag
    /\ last = NoStationCall
    /\ run = NoRun
    /\ cache = EmptyCache
    /\ esi = StationData
    /\ settings = AllOff

NextStations ==
    \/ \E id \in StationIds : CallStationUpdateOrCreateEsi(id)
    \/ \E id \in StationIds : CallStationGetOrCreateEsi(id)
    \/ \E services \in ServiceLists : ServicesChange(60015068, services)

SpecStations == InitStations /\ [][NextStations]_vars

-----------------------------------------------------------------------------
(* Fetches that fail: the map with moons enabled, the list of races, and   *)
(* records whose linkage to a planet is missing: moon 40349469, which no   *)
(* planet of its solar system lists; planet 40349470, whose solar system   *)
(* lists no planets; asteroid belt 40349488, which names no solar system.  *)

FetchData ==
    Merged(("Universe.get_universe_moons_moon_id" :>
                (40349469 :> [moon_id |-> 40349469, name |-> 91, system_id |-> 30045339,
                              position |-> [x |-> 92]]))
           @@ ("Universe.get_universe_planets_planet_id" :>
                (40349470 :> [planet_id |-> 40349470, name |-> 93,
                              system_id |-> 30045342, type_id |-> 2016,
                              position |-> [x |-> 94]]))
           @@ ("Universe.get_universe_asteroid_belts_asteroid_belt_id" :>
                (40349488 :> [asteroid_belt_id |-> 40349488, name |-> 95,
                              position |-> [x |-> 96]]))
           @@ ("Universe.get_universe_races" :> ListData["Universe.get_universe_races"]),
           MapData)

(* moon 40349999 is unknown to the remote, race 9 is not in the list *)
FetchCalls ==
    {<<"EveMoon", 40349468>>, <<"EveMoon", 40349469>>, <<"EveMoon", 40349999>>,
     <<"EvePlanet", 40349467>>, <<"EvePlanet", 40349470>>,
     <<"EveAsteroidBelt", 40349488>>, <<"EveRace", 1>>, <<"EveRace", 9>>}
        \X {<<FALSE, TRUE>>, <<TRUE, TRUE>>, <<TRUE, FALSE>>}

FetchEdits == {<<"EveMoon", 40349468>>}

InitFetch ==
    /\ InitStore
    /\ esi = FetchData
    /\ settings = [AllOff EXCEPT !.EVEUNIVERSE_LOAD_MOONS = TRUE]

NextFetch ==
    \/ \E c \in FetchCalls : CallUpdateOrCreateEsi(c[1][1], c[1][2], c[2][1], c[2][2])
    \/ \E c \in FetchCalls : CallGetOrCreateEsi(c[1][1], c[1][2], c[2][1], c[2][2])
    \/ \E job \in BagToSet(jobs) : RunLoadEveObject(job)
    \/ \E t \in FetchEdits : LocalSave(t[1], t[2])

SpecFetch == InitFetch /\ [][NextFetch]_vars

-----------------------------------------------------------------------------
(* Two update_or_create_esi calls running concurrently (two workers, each  *)
(* with a load_eve_object job).  A call is a sequence of steps: the fetch  *)
(* of the remote object, the compilation of the defaults (with the lookup  *)
(* and, where allowed, the upsert of the related objects), the write of    *)
(* the record (update_or_create, atomic in the database, with inline       *)
(* objects), and for a stargate the reciprocal fix-up.  Between its steps  *)
(* a call holds what it has read in local values.                          *)

(* a call before its first step *)
NewCall(c) ==
    [model |-> c[1], id |-> c[2], pc |-> "fetch", data |-> <<>>, defaults |-> <<>>,
     read |-> FALSE, instance |-> <<>>, obj |-> <<>>, created |-> FALSE,
     err |-> NoError]

(* the records the blocking calls before the concurrent ones load, and the *)
(* one edited locally                                                      *)
RaceLoads ==
    {<<"EveSolarSystem", 30045339>>, <<"EveStargate", 50016284>>,
     <<"EveStargate", 50016283>>}

RaceEdits == {<<"EveSolarSystem", 30045339>>, <<"EveStargate", 50016284>>}

(* the pairs of concurrent calls: twice the same solar system, twice the   *)
(* same stargate, and the two stargates that name each other               *)
RaceCalls ==
    {<<<<"EveSolarSystem", 30045339>>, <<"EveSolarSystem", 30045339>>>>,
     <<<<"EveStargate", 50016284>>, <<"EveStargate", 50016284>>>>,
     <<<<"EveStargate", 50016284>>, <<"EveStargate", 50016283>>>>}

InitRace ==
    /\ InitStore
    /\ esi = MapData
    /\ settings = AllOff

(* a blocking call before the concurrent ones *)
RaceLoad(c) ==
    /\ ~run.active
    /\ CallUpdateOrCreateEsi(c[1], c[2], FALSE, TRUE)

(* a local edit before the concurrent calls *)
RaceEdit(c) ==
    /\ ~run.active
    /\ LocalSave(c[1], c[2])

(* two workers take up one call each; sync is what the two calls leave     *)
(* when they run one after the other                                       *)
RaceBegin(c) ==
    /\ ~run.active
    /\ run' = [active |-> TRUE, model |-> c[1][1], id |-> c[1][2],
               sync |-> Outcome(Bind(update_or_create_esi(Start, c[1][1], c[1][2],
                                                          FALSE, TRUE, MaxDepth),
                                     LAMBDA r : update_or_create_esi(
                                        r.S, c[2][1], c[2][2], FALSE, TRUE, MaxDepth))),
               stored |-> c[1][2] \in DOMAIN db[c[1][1]],
               calls |-> <<NewCall(c[1]), NewCall(c[2])>>]
    /\ last' = [NoCall EXCEPT !.op = "begin"]
    /\ UNCHANGED <<db, inl, jobs, esi, settings, cache>>

(* the i-th call moves on *)
Moves(i, call) ==
    /\ run' = [run EXCEPT !.calls[i] = call]
    /\ last' = [NoCall EXCEPT !.op = run.calls[i].pc, !.model = call.model,
                              !.id = call.id, !.err = call.err]
    /\ UNCHANGED <<esi, settings, cache>>

(* an exception ends the call: it is logged and raised again *)
Failed(call, err) == [call EXCEPT !.pc = "done", !.err = err]

Fetches(i, r) ==
    /\ Moves(i, IF r.err # NoError THEN Failed(run.calls[i], r.err)
                ELSE IF ~TruthyDict(r.val) THEN Failed(run.calls[i], "UnboundLocalError")
                ELSE [run.calls[i] EXCEPT !.pc = "resolve", !.data = r.val])
    /\ UNCHANGED <<db, inl, jobs>>

(* eve_data_obj = self._handle_list_endpoints(id, self._fetch_from_esi(id)) *)
RaceFetch(i) ==
    /\ run.active
    /\ run.calls[i].pc = "fetch"
    /\ Fetches(i, _handle_list_endpoints(run.calls[i].model, run.calls[i].id,
                    _fetch_from_esi(Start, run.calls[i].model, run.calls[i].id)))

(* the defaults name a destination stargate: ParentClass.objects.get has   *)
(* read its row                                                            *)
NamesDestination(model, defaults) ==
    /\ Manager(model) = "EveStargateManager"
    /\ "destination_eve_stargate" \in DOMAIN defaults
    /\ defaults.destination_eve_stargate # NULL

Resolves(i, r) ==
    /\ db' = r.S.db
    /\ inl' = r.S.inl
    /\ jobs' = r.S.jobs
    /\ Moves(i, IF r.err # NoError THEN Failed(run.calls[i], r.err)
                ELSE IF NamesDestination(run.calls[i].model, r.val)
                THEN [run.calls[i] EXCEPT
                        !.pc = "write", !.defaults = r.val, !.read = TRUE,
                        !.instance = r.S.db[run.calls[i].model][
                                        r.val.destination_eve_stargate]]
                ELSE [run.calls[i] EXCEPT !.pc = "write", !.defaults = r.val])

(* defaults = self._defaults_from_esi_obj(eve_data_obj) *)
RaceResolve(i) ==
    /\ run.active
    /\ run.calls[i].pc = "resolve"
    /\ Resolves(i, _defaults_from_esi_obj(Start, run.calls[i].model, run.calls[i].data,
                                          MaxDepth))

Writes(i, r) ==
    /\ db' = r.S.db
    /\ inl' = r.S.inl
    /\ jobs' = r.S.jobs
    /\ Moves(i, IF r.err # NoError THEN Failed(run.calls[i], r.err)
                ELSE [run.calls[i] EXCEPT
                        !.pc = IF Manager(run.calls[i].model) = "EveStargateManager"
                               THEN "fixup" ELSE "done",
                        !.obj = r.S.db[run.calls[i].model][r.val],
                        !.created = r.created])

(* obj, created = self.update_or_create(id=id, defaults=defaults), and the *)
(* inline objects                                                          *)
RaceWrite(i) ==
    /\ run.active
    /\ run.calls[i].pc = "write"
    /\ Writes(i, Bind(update_or_create(Start, run.calls[i].model, run.calls[i].id,
                                       run.calls[i].defaults),
                      LAMBDA w : AfterUpsert(w, run.calls[i].model, run.calls[i].data,
                                             FALSE, TRUE, MaxDepth)))

Fixes(i, r) ==
    /\ db' = r.S.db
    /\ inl' = r.S.inl
    /\ jobs' = r.S.jobs
    /\ Moves(i, IF r.err # NoError THEN Failed(run.calls[i], r.err)
                ELSE [run.calls[i] EXCEPT !.pc = "done"])

(* obj.destination_eve_stargate: the instance the defaults hold, read when *)
(* they were compiled; the stored row when the defaults have none          *)
DestinationInstance(call) ==
    IF call.read THEN call.instance
    ELSE db[call.model][call.obj.destination_eve_stargate]

(* the reciprocal fix-up of EveStargateManager.update_or_create_esi: the   *)
(* destination instance is pointed back at obj and saved                   *)
RaceFixup(i) ==
    /\ run.active
    /\ run.calls[i].pc = "fixup"
    /\ IF run.calls[i].obj.destination_eve_stargate = NULL
       THEN Fixes(i, Ret(Start, NULL, FALSE))
       ELSE Fixes(i, Save(Start, run.calls[i].model,
                          run.calls[i].obj.destination_eve_stargate,
                          [DestinationInstance(run.calls[i]) EXCEPT
                            !.destination_eve_stargate = run.calls[i].id,
                            !.destination_eve_solar_system =
                                IF run.calls[i].obj.eve_solar_system # NULL
                                THEN run.calls[i].obj.eve_solar_system ELSE @],
                          FALSE))

NextRace ==
    \/ \E c \in RaceLoads : RaceLoad(c)
    \/ \E c \in RaceEdits : RaceEdit(c)
    \/ \E c \in RaceCalls : RaceBegin(c)
    \/ \E i \in 1..2 : RaceFetch(i)
    \/ \E i \in 1..2 : RaceResolve(i)
    \/ \E i \in 1..2 : RaceWrite(i)
    \/ \E i \in 1..2 : RaceFixup(i)

SpecRace == InitRace /\ [][NextRace]_vars

-----------------------------------------------------------------------------
(* Blocking calls over data with chains of references: the map with the    *)
(* two stargates that name each other, type 603 under its group and        *)
(* category, and a chain of three market groups.                           *)

NestedData ==
    Merged(("Market.get_markets_groups_market_group_id" :>
                ((4 :> [market_group_id |-> 4, name |-> 36, description |-> 37,
                        parent_group_id |-> 2])
                @@ (2 :> [market_group_id |-> 2, name |-> 97, description |-> 98]))),
           Merged(TypeData, MapData))

NestedSettings ==
    {[AllOff EXCEPT !.EVEUNIVERSE_LOAD_STARGATES = TRUE,
                    !.EVEUNIVERSE_LOAD_MARKET_GROUPS = TRUE,
                    !.EVEUNIVERSE_LOAD_PLANETS = b] : b \in BOOLEAN}

(* <<model, id>> of the calls; every call waits for its children *)
NestedCalls ==
    {<<"EveRegion", 10000069>>, <<"EveSolarSystem", 30045339>>,
     <<"EveStargate", 50016283>>, <<"EveCategory", 6>>, <<"EveMarketGroup", 61>>}

InitNested ==
    /\ InitStore
    /\ esi = NestedData
    /\ settings \in NestedSettings

NextNested ==
    \/ \E c \in NestedCalls : \E include_children \in BOOLEAN :
            CallUpdateOrCreateEsi(c[1], c[2], include_children, TRUE)
    \/ \E c \in NestedCalls : \E include_children \in BOOLEAN :
            CallGetOrCreateEsi(c[1], c[2], include_children, TRUE)

SpecNested == InitNested /\ [][NextNested]_vars

-----------------------------------------------------------------------------
(* models.py: the security classes of a solar system.  self is the stored  *)
(* row; the security status is in tenths.                                  *)

(* EveSolarSystem.is_high_sec *)
is_high_sec(self) == self.security_status > 5

(* EveSolarSystem.is_low_sec *)
is_low_sec(self) == 0 < self.security_status /\ self.security_status <= 5

(* EveSolarSystem.is_null_sec *)
is_null_sec(self) == self.security_status <= 0 /\ ~is_w_space(self.id)

(* the four class properties of a stored solar system, read one after the  *)
(* other                                                                   *)
Classes(id) ==
    /\ id \in DOMAIN db["EveSolarSystem"]
    /\ last' = Asked("classes", id, id, FALSE, NoError, FALSE,
                     <<is_high_sec(db["EveSolarSystem"][id]),
                       is_low_sec(db["EveSolarSystem"][id]),
                       is_null_sec(db["EveSolarSystem"][id]),
                       is_w_space(id)>>)
    /\ UNCHANGED <<db, inl, jobs, esi, settings, run, cache>>

(* system.security_status = status; system.save() *)
SecurityChanges(id, status) ==
    /\ id \in DOMAIN db["EveSolarSystem"]
    /\ db["EveSolarSystem"][id].security_status # status
    /\ db' = [db EXCEPT !["EveSolarSystem"][id].security_status = status]
    /\ last' = [NoCall EXCEPT !.op = "save", !.model = "EveSolarSystem", !.id = id]
    /\ UNCHANGED <<inl, jobs, esi, settings, run, cache>>

(* the security statuses a solar system may take: -1.0, 0.0, 0.3, 0.5 and  *)
(* 0.6                                                                     *)
SecurityValues == {-10, 0, 3, 5, 6}

(* the solar systems whose status changes: Akidagi and Thera *)
SecurityEdits == {30045342, 31000005}

(* Enaluri and Akidagi at 0.5, Jita, Thera *)
SecuritySystems ==
    [id \in DOMAIN RouteSystems |->
        IF id \in {30045339, 30045342}
        THEN [RouteSystems[id] EXCEPT !.security_status = 5]
        ELSE RouteSystems[id]]

SecurityGates ==
    [id \in {50016284, 50016283, 50000056, 50000057} |-> RouteGates[id]]

SecurityCalls ==
    {<<30045339, 30045342, TRUE>>, <<30045339, 30045342, FALSE>>,
     <<30045339, 30000142, TRUE>>}

InitSecurity ==
    /\ db = [m \in EntityModels |->
                IF m = "EveSolarSystem" THEN SecuritySystems
                ELSE IF m = "EveStargate" THEN SecurityGates ELSE <<>>]
    /\ inl = [m \in AutoPkTables |-> <<>>]
    /\ jobs = EmptyBag
    /\ last = NoCall
    /\ run = NoRun
    /\ cache = EmptyCache
    /\ esi = MapData
    /\ settings = AllOff

NextSecurity ==
    \/ \E id \in DOMAIN SecuritySystems : Classes(id)
    \/ \E id \in SecurityEdits : \E status \in SecurityValues :
            SecurityChanges(id, status)
    \/ \E c \in SecurityCalls : JumpsTo(c[1], c[2], c[3])
    \/ \E c \in SecurityCalls : RouteTo(c[1], c[2], c[3])
    \/ CacheExpires

SpecSecurity == InitSecurity /\ [][NextSecurity]_vars

-----------------------------------------------------------------------------
(* Properties *)

(* C1: a get_or_create_esi call for an id that already has a local record  *)
(* makes no remote call, submits no job and writes nothing (its effect log *)
(* is empty), returns the existing record with created = False, and leaves *)
(* the entity tables, the inline tables and the job queue as they were,    *)
(* whatever include_children and wait_for_children are.                    *)
C1_GetOrCreateHit ==
    [][(last'.op = "get_or_create_esi" /\ last'.id \in DOMAIN db[last'.model])
        => /\ last'.err = NoError
           /\ last'.obj = last'.id
           /\ ~last'.created
           /\ last'.log = <<>>
           /\ db' = db /\ inl' = inl /\ jobs' = jobs /\ esi' = esi]_vars

(* the planet is asked for again, children included, after its moon was    *)
(* edited locally; the edit is still there                                 *)
C1_Witness ==
    /\ last.op = "get_or_create_esi"
    /\ last.model = "EvePlanet"
    /\ last.include_children
    /\ ~last.created
    /\ last.log = <<>>
    /\ 40349468 \in DOMAIN db["EveMoon"]
    /\ db["EveMoon"][40349468].name = Dummy


ListedId(key, element) == IF key = "planets" THEN element.planet_id ELSE element

(* the children <<kind, id>> listed in what is fetched for the parent *)
ListedChildren(model, id) ==
    LET data == _fetch_from_esi(Start, model, id).val
        kids == children(model)
    IN  UNION {{<<kids[k][2], ListedId(kids[k][1], data[kids[k][1]][j])>> :
                    j \in 1..Len(data[kids[k][1]])} :
               k \in {k \in 1..Len(kids) : kids[k][1] \in DOMAIN data}}

(* the row of id holds, in every mapped plain field the remote object has  *)
(* a value for, that value                                                 *)
RemoteSourced(table, model, id) ==
    LET data == _handle_list_endpoints(model, id, _fetch_from_esi(Start, model, id)).val
    IN  \A i \in 1..Len(esi_mapping(model)) :
            LET m == esi_mapping(model)[i]
            IN  (~m.is_pk /\ ~m.is_fk /\ EsiValue(data, m.esi_name) # NULL)
                    => table[id][m.field] = EsiValue(data, m.esi_name)

(* C4: update_or_create_esi(id, include_children=True,                     *)
(* wait_for_children=True) on a parent that has a local record returns,    *)
(* and when it has returned every child listed in the parent's remote      *)
(* object has a local record holding its remote values, whatever was       *)
(* written to it locally before.                                           *)
C4_ChildrenRefreshed ==
    [][(/\ last'.op = "update_or_create_esi"
        /\ last'.include_children /\ last'.wait_for_children
        /\ last'.id \in DOMAIN db[last'.model])
        => /\ last'.err = NoError
           /\ \A c \in ListedChildren(last'.model, last'.id) :
                /\ c[2] \in DOMAIN db'[c[1]]
                /\ RemoteSourced(db'[c[1]], c[1], c[2])]_vars

(* the solar system's blocking call with children has raised at its first  *)
(* planet entry and the stargate its remote object lists has no record     *)
C4_Witness ==
    /\ last.op = "update_or_create_esi"
    /\ last.model = "EveSolarSystem"
    /\ last.include_children /\ last.wait_for_children
    /\ last.err # NoError
    /\ settings.EVEUNIVERSE_LOAD_PLANETS
    /\ 50016284 \notin DOMAIN db["EveStargate"]

(* C4 for the calls that return: the same, given that the call succeeded.  *)
C4_RefreshedOnReturn ==
    [][(/\ last'.op = "update_or_create_esi"
        /\ last'.include_children /\ last'.wait_for_children
        /\ last'.id \in DOMAIN db[last'.model]
        /\ last'.err = NoError)
        => \A c \in ListedChildren(last'.model, last'.id) :
                /\ c[2] \in DOMAIN db'[c[1]]
                /\ RemoteSourced(db'[c[1]], c[1], c[2])]_vars

(* C6: when every job submitted by update_or_create_esi(id,                *)
(* include_children=True, wait_for_children=False) and by the jobs         *)
(* themselves has run, the entity and inline tables are those the call     *)
(* with wait_for_children=True leaves from the same store.                 *)
C6_AsyncEqualsSync ==
    (run.active /\ jobs = EmptyBag) => (db = run.sync.db /\ inl = run.sync.inl)

(* every job of a solar system's non-blocking call has run, the stargate   *)
(* job has stored the gate, and the blocking call from the same store      *)
(* raised before it reached the gate                                       *)
C6_Witness ==
    /\ run.active /\ jobs = EmptyBag
    /\ run.model = "EveSolarSystem"
    /\ run.sync.err # NoError
    /\ 50016284 \in DOMAIN db["EveStargate"]
    /\ 50016284 \notin DOMAIN run.sync.db["EveStargate"]

(* C6 with planet loading switched off *)
C6_AsyncEqualsSyncNoPlanets ==
    (run.active /\ jobs = EmptyBag /\ ~settings.EVEUNIVERSE_LOAD_PLANETS)
        => (db = run.sync.db /\ inl = run.sync.inl)

(* the places in a call's log of an event of one of the given kinds, and   *)
(* of the write of a record                                                *)
EventsOf(log, kinds) == {i \in 1..Len(log) : log[i][1] \in kinds}

SavesOf(log, model, id) == {i \in 1..Len(log) : log[i] = <<"save", model, id>>}

(* C7: in an update_or_create_esi call with include_children the record is *)
(* written before the first child is upserted or submitted as a job; and   *)
(* when a child operation fails, the record is in the store with its       *)
(* remote values.                                                          *)
C7_ParentBeforeChildren ==
    [][(/\ last'.op = "update_or_create_esi"
        /\ last'.include_children
        /\ EventsOf(last'.log, {"child", "delay"}) # {})
        => /\ SavesOf(last'.log, last'.model, last'.id) # {}
           /\ Min(SavesOf(last'.log, last'.model, last'.id))
                < Min(EventsOf(last'.log, {"child", "delay"}))
           /\ last'.id \in DOMAIN db'[last'.model]
           /\ RemoteSourced(db'[last'.model], last'.model, last'.id)]_vars

(* a solar system's first child fails, and the solar system is stored *)
C7_Witness ==
    /\ last.op = "update_or_create_esi"
    /\ last.model = "EveSolarSystem"
    /\ last.include_children /\ last.wait_for_children
    /\ last.err # NoError
    /\ EventsOf(last.log, {"child"}) # {}
    /\ last.id \in DOMAIN db["EveSolarSystem"]

(* the stargate a stargate's remote object names as destination, or None *)
RemoteDestination(id) ==
    EsiValue(esi[esi_path_object("EveStargate")][id], <<"destination", "stargate_id">>)

(* C9: whenever a stored stargate names a destination stargate, that gate  *)
(* is stored, names it back, and lies in the solar system the first names  *)
(* as destination solar system; and two stored stargates whose remote      *)
(* objects name each other as destination name each other, whichever was   *)
(* upserted first.                                                         *)
C9_ReciprocalStargates ==
    \A a \in DOMAIN db["EveStargate"] :
        LET gate == db["EveStargate"][a]
            b == gate.destination_eve_stargate
        IN  /\ b # NULL
                => /\ b \in DOMAIN db["EveStargate"]
                   /\ db["EveStargate"][b].destination_eve_stargate = a
                   /\ gate.destination_eve_solar_system
                        = db["EveStargate"][b].eve_solar_system
            /\ (/\ RemoteDestination(a) \in DOMAIN db["EveStargate"]
                /\ RemoteDestination(RemoteDestination(a)) = a)
                => b = RemoteDestination(a)

(* the second gate of the pair was created after the first, and the first  *)
(* now names the second                                                    *)
C9_Witness ==
    /\ last.op \in {"update_or_create_esi", "get_or_create_esi"}
    /\ last.model = "EveStargate"
    /\ last.id = 50016283
    /\ last.created
    /\ 50016284 \in DOMAIN db["EveStargate"]
    /\ db["EveStargate"][50016284].destination_eve_stargate = 50016283
    /\ db["EveStargate"][50016284].destination_eve_solar_system = 30045342

(* what a field holds when nothing was ever written to it *)
Unset(m) == IF m.is_charfield THEN EMPTY ELSE NULL

(* the remote object of a record as update_or_create_esi reads it *)
RemoteObject(model, id) ==
    _handle_list_endpoints(model, id, _fetch_from_esi(Start, model, id)).val

(* C3: when update_or_create_esi has returned for a record that existed,   *)
(* every mapped field of the record other than the primary key holds what  *)
(* the current remote object gives for it: the value of a plain field, the *)
(* id of a reference, and None (the empty string for text) when the        *)
(* remote object has no such key.                                          *)
C3_FullOverwrite ==
    [][(/\ last'.op = "update_or_create_esi"
        /\ last'.err = NoError
        /\ last'.id \in DOMAIN db[last'.model])
        => \A i \in 1..Len(esi_mapping(last'.model)) :
            LET m == esi_mapping(last'.model)[i]
                v == EsiValue(RemoteObject(last'.model, last'.id), m.esi_name)
                stored == db'[last'.model][last'.id][m.field]
            IN  ~m.is_pk
                    => IF v = NULL THEN stored = Unset(m)
                       ELSE (m.is_fk /\ stored = NULL) \/ stored = v]_vars

(* type 603 was upserted again after the remote object lost its capacity   *)
(* and its market group, and the record still holds both                   *)
C3_Witness ==
    /\ last.op = "update_or_create_esi"
    /\ last.model = "EveType" /\ last.id = 603
    /\ last.err = NoError /\ ~last.created
    /\ esi = TypeData2
    /\ db["EveType"][603].capacity = 150
    /\ db["EveType"][603].eve_market_group = 61

(* no row of the store refers to a record that is not stored *)
NoDanglingReference ==
    /\ \A model \in EntityModels : \A id \in DOMAIN db[model] :
        \A n \in FieldNames(model) :
            (FieldOf(model, n).related # "" /\ db[model][id][n] # NULL)
                => db[model][id][n] \in DOMAIN db[FieldOf(model, n).related]
    /\ \A model \in InlineModels : \A i \in 1..Len(inl[model]) :
        \A n \in FieldNames(model) :
            (FieldOf(model, n).related # "" /\ inl[model][i][n] # NULL)
                => inl[model][i][n] \in DOMAIN db[FieldOf(model, n).related]

RECURSIVE References(_, _, _, _)

(* every create_related reference of the record that the remote object     *)
(* gives an id for, and that satisfies only_fetchable => "the related      *)
(* kind has update_or_create_esi", holds that id, the record it names is   *)
(* stored, and the same is true of that record, depth levels down          *)
References(model, id, only_fetchable, depth) ==
    \/ depth = 0
    \/ /\ id \in DOMAIN db[model]
       /\ \A i \in 1..Len(esi_mapping(model)) :
            LET m == esi_mapping(model)[i]
                v == EsiValue(RemoteObject(model, id), m.esi_name)
            IN  (/\ m.is_fk /\ ~m.is_pk /\ m.create_related /\ v # NULL
                 /\ only_fetchable => has_update_or_create_esi(m.related_model))
                    => /\ db[model][id][m.field] = v
                       /\ IF has_update_or_create_esi(m.related_model)
                          THEN References(m.related_model, v, only_fetchable, depth - 1)
                          ELSE v \in DOMAIN db[m.related_model]

(* a call that has just returned a record it wrote or found *)
Returned ==
    /\ last.op \in {"update_or_create_esi", "get_or_create_esi"}
    /\ last.err = NoError

(* C5 as stated: after a successful update_or_create_esi or                *)
(* get_or_create_esi every create_related reference of the record with a   *)
(* remote id holds that id and names a stored record, transitively; and no *)
(* row ever refers to a record that is not stored.                         *)
C5_Original ==
    /\ NoDanglingReference
    /\ Returned => References(last.model, last.id, FALSE, MaxDepth)

(* C5 amended: the same for the references whose related kind can be       *)
(* fetched remotely (has update_or_create_esi); a reference to a kind      *)
(* without it (EveUnit) is left None when the unit is not stored.          *)
C5_ReferencesResolved ==
    /\ NoDanglingReference
    /\ Returned => References(last.model, last.id, TRUE, MaxDepth)

(* attribute 129, whose unit is not stored, was upserted after type 603    *)
(* had been created with its market group and the group's parent           *)
C5_Witness ==
    /\ Returned
    /\ last.model = "EveDogmaAttribute" /\ last.id = 129
    /\ 603 \in DOMAIN db["EveType"]
    /\ db["EveType"][603].eve_market_group = 61
    /\ db["EveMarketGroup"][61].parent_market_group = 4
    /\ 4 \in DOMAIN db["EveMarketGroup"]
    /\ db["EveDogmaAttribute"][129].eve_unit = NULL
    /\ db["EveDogmaAttribute"][588].eve_unit = 108

(* C8: update_or_create_esi for a list-only kind calls the list endpoint   *)
(* without arguments first; when the list has a row with the id, the call  *)
(* succeeds and the record holds that row's values; when it has none, the  *)
(* call raises HTTPNotFound and the tables are as before.                  *)
C8_ListOnlyScan ==
    [][(last'.op = "update_or_create_esi" /\ is_list_only_endpoint(last'.model))
        => LET model == last'.model
               id == last'.id
               rows == esi[esi_path_object(model)][NoArgs]
               hits == {i \in 1..Len(rows) :
                            esi_pk(model) \in DOMAIN rows[i] /\ rows[i][esi_pk(model)] = id}
           IN  /\ last'.log[1] = <<"esi", esi_path_object(model), NoArgs>>
               /\ IF hits # {}
                  THEN /\ last'.err = NoError
                       /\ id \in DOMAIN db'[model]
                       /\ \A i \in 1..Len(esi_mapping(model)) :
                            LET m == esi_mapping(model)[i]
                                v == EsiValue(rows[Min(hits)], m.esi_name)
                            IN  (~m.is_pk /\ v # NULL) => db'[model][id][m.field] = v
                  ELSE /\ last'.err = "HTTPNotFound"
                       /\ db' = db /\ inl' = inl]_vars

(* ancestry 13, the second row of the list, was created from its row *)
C8_Witness ==
    /\ last.op = "update_or_create_esi"
    /\ last.model = "EveAncestry" /\ last.id = 13
    /\ last.err = NoError /\ last.created
    /\ db["EveAncestry"][13].name = 55

(* no two rows of an inline table have the same parent and the same value  *)
(* of the other key field                                                  *)
UniqueInlineRows ==
    \A model \in InlineModels :
        LET parent_fk == ParentFk(AllMappings[model]).field
            other_pk == OtherPk(AllMappings[model]).field
        IN  \A i, j \in 1..Len(inl[model]) :
                (/\ inl[model][i][parent_fk] = inl[model][j][parent_fk]
                 /\ inl[model][i][other_pk] = inl[model][j][other_pk]) => i = j

(* the entries of an inline list that decide what the row of key value     *)
(* holds: every entry of the list (all = TRUE) or the last entry with that *)
(* key value                                                               *)
Deciding(entries, key, value, all) ==
    LET with == {j \in 1..Len(entries) : entries[j][key] = value}
    IN  IF all THEN with ELSE {j \in with : \A k \in with : k <= j}

(* the inline rows of the record carry the values of the entries of its    *)
(* remote object: for every entry there is a row with the record as parent *)
(* and the entry's key value, holding every value the deciding entries     *)
(* give                                                                    *)
InlineRowsCarry(model, id, all) ==
    \A k \in 1..Len(inline_objects(model)) :
        LET inline_field == inline_objects(model)[k][1]
            InlineModel == inline_objects(model)[k][2]
            mapping == esi_mapping(InlineModel)
            parent_fk == ParentFk(mapping).field
            other_pk == OtherPk(mapping)
            data == RemoteObject(model, id)
            entries == IF inline_field \in DOMAIN data THEN data[inline_field] ELSE <<>>
        IN  \A e \in 1..Len(entries) :
                LET value == entries[e][other_pk.esi_name[1]]
                    hits == InlineHits(inl[InlineModel], parent_fk, id,
                                       other_pk.field, value)
                IN  /\ hits # {}
                    /\ \A h \in hits :
                        \A j \in Deciding(entries, other_pk.esi_name[1], value, all) :
                            \A i \in 1..Len(mapping) :
                                (/\ ~mapping[i].is_pk
                                 /\ EsiValue(entries[j], mapping[i].esi_name) # NULL)
                                    => inl[InlineModel][h][mapping[i].field]
                                        = EsiValue(entries[j], mapping[i].esi_name)

(* a call that has just upserted a record of a kind with inline objects *)
UpsertedWithInlines ==
    /\ \/ last.op \in {"update_or_create_esi", "load_eve_object"}
       \/ last.op = "get_or_create_esi" /\ last.created
    /\ last.err = NoError
    /\ inline_objects(last.model) # <<>>

(* C10 as stated: at most one inline row per parent and key value, and     *)
(* after an upsert of the parent the row of every entry of its remote      *)
(* object carries that entry's values.                                     *)
C10_Original ==
    /\ UniqueInlineRows
    /\ UpsertedWithInlines => InlineRowsCarry(last.model, last.id, TRUE)

(* C10 amended: at most one inline row per parent and key value, and after *)
(* an upsert of the parent the row of every key value in its remote object *)
(* carries the values of the last entry with that key value.               *)
C10_InlineRows ==
    /\ UniqueInlineRows
    /\ UpsertedWithInlines => InlineRowsCarry(last.model, last.id, FALSE)

(* type 603 was upserted again after attribute 588 got a new remote value: *)
(* its row holds the new value, and the row of attribute 129, no longer    *)
(* listed, is still there                                                  *)
C10_Witness ==
    /\ last.op = "update_or_create_esi"
    /\ last.model = "EveType" /\ last.id = 603
    /\ last.err = NoError /\ ~last.created
    /\ esi = TypeData2
    /\ Len(inl["EveTypeDogmaAttribute"]) = 2
    /\ \E i \in 1..2 : /\ inl["EveTypeDogmaAttribute"][i].eve_dogma_attribute = 588
                       /\ inl["EveTypeDogmaAttribute"][i].value = 7
    /\ Len(inl["EveDogmaEffectModifier"]) = 2

-----------------------------------------------------------------------------
(* _defaults_from_esi_obj as a function of the raw record *)

Compiled == last.op = "_defaults_from_esi_obj"

(* the non-key mappings of the compiled model that name a nested path *)
NestedFields ==
    {i \in 1..Len(esi_mapping(last.model)) :
        /\ ~esi_mapping(last.model)[i].is_pk
        /\ Len(esi_mapping(last.model)[i].esi_name) = 2}

(* what the defaults hold for a field whose resolved value is v: nothing   *)
(* for None, v for a plain field, the stored related object or None for a  *)
(* reference                                                               *)
Carries(defaults, m, v) ==
    IF v = NULL THEN m.field \notin DOMAIN defaults
    ELSE /\ m.field \in DOMAIN defaults
         /\ defaults[m.field] \in (IF m.is_fk THEN {v, NULL} ELSE {v})

NestedResolved(raw, defaults, m) ==
    IF m.esi_name[1] \in DOMAIN raw /\ m.esi_name[2] \in DOMAIN raw[m.esi_name[1]]
    THEN /\ EsiValue(raw, m.esi_name) = raw[m.esi_name[1]][m.esi_name[2]]
         /\ Carries(defaults, m, raw[m.esi_name[1]][m.esi_name[2]])
    ELSE /\ EsiValue(raw, m.esi_name) = NULL
         /\ Carries(defaults, m, NULL)

(* C11: when _defaults_from_esi_obj returns, every field mapped to a       *)
(* nested path (outer, inner) has resolved to None if the outer key is     *)
(* absent from the raw record or the inner key is absent from the outer    *)
(* object, and to the nested value if both are present; the defaults carry *)
(* the field accordingly.                                                  *)
C11_NestedPath ==
    Compiled /\ last.err = NoError
        => \A i \in NestedFields :
              NestedResolved(last.eve_data_obj, last.defaults, esi_mapping(last.model)[i])

(* a stargate's record with a position, and a destination that names the   *)
(* stored stargate but no solar system                                     *)
C11_Witness ==
    /\ Compiled /\ last.err = NoError
    /\ "position" \in DOMAIN last.eve_data_obj
    /\ "position_x" \in DOMAIN last.defaults
    /\ last.defaults.position_x = 24
    /\ "destination" \in DOMAIN last.eve_data_obj
    /\ "system_id" \notin DOMAIN last.eve_data_obj.destination
    /\ "destination_eve_solar_system" \notin DOMAIN last.defaults
    /\ "destination_eve_stargate" \in DOMAIN last.defaults
    /\ last.defaults.destination_eve_stargate = 50016283

(* the non-key mappings of the compiled model onto a CharField / TextField *)
TextFields ==
    {i \in 1..Len(esi_mapping(last.model)) :
        /\ ~esi_mapping(last.model)[i].is_pk
        /\ esi_mapping(last.model)[i].is_charfield}

(* C12: when _defaults_from_esi_obj returns, a textual field whose remote  *)
(* value is null (key absent or value null) is in the defaults and holds   *)
(* the empty string.                                                       *)
C12_TextNullIsEmpty ==
    Compiled /\ last.err = NoError
        => \A i \in TextFields :
              EsiValue(last.eve_data_obj, esi_mapping(last.model)[i].esi_name) = NULL
                  => /\ esi_mapping(last.model)[i].field \in DOMAIN last.defaults
                     /\ last.defaults[esi_mapping(last.model)[i].field] = EMPTY

(* a record that carries "name": null compiles to defaults without "name" *)
C12_Witness ==
    /\ Compiled /\ last.err = NoError
    /\ "name" \in DOMAIN last.eve_data_obj
    /\ last.eve_data_obj.name = NULL
    /\ "name" \notin DOMAIN last.defaults
    /\ "eve_type" \in DOMAIN last.defaults

(* C13: _defaults_from_esi_obj returns a mapping for every raw record, in  *)
(* every store and remote state: it never raises.                          *)
C13_NeverRaises == Compiled => last.err = NoError

(* a record whose "position" is present and null: the call raised          *)
(* TypeError before it looked at any other field of the position           *)
C13_Witness ==
    /\ Compiled
    /\ "position" \in DOMAIN last.eve_data_obj
    /\ IsNone(last.eve_data_obj.position)
    /\ "destination" \notin DOMAIN last.eve_data_obj
    /\ last.err = "TypeError"

-----------------------------------------------------------------------------
(* update_or_create_all_esi *)

(* C14: update_or_create_all_esi on a model that declares no list endpoint *)
(* raises TypeError, and has made no remote call, submitted no job and     *)
(* written no record.                                                      *)
C14_NoListEndpoint ==
    [][\A c \in AllCalls :
          CallUpdateOrCreateAllEsi(c[1], c[2], c[3]) /\ ~has_esi_path_list(c[1])
              => /\ last'.err = "TypeError"
                 /\ last'.log = <<>>
                 /\ UNCHANGED <<db, inl, jobs>>]_vars

(* all moons are asked for while regions are stored and a job is waiting *)
C14_Witness ==
    /\ last.op = "update_or_create_all_esi"
    /\ last.model = "EveMoon"
    /\ last.err = "TypeError"
    /\ 10000069 \in DOMAIN db["EveRegion"]
    /\ jobs # EmptyBag

-----------------------------------------------------------------------------
(* The EVEUNIVERSE_LOAD_* settings *)

(* the tables a model fills only when a load flag allows it, for the flags *)
(* that are off                                                            *)
GatedOff(model) ==
    CASE model = "EvePlanet" ->
            (IF settings.EVEUNIVERSE_LOAD_MOONS THEN {} ELSE {"EveMoon"})
            \cup (IF settings.EVEUNIVERSE_LOAD_ASTEROID_BELTS THEN {}
                  ELSE {"EveAsteroidBelt"})
      [] model = "EveSolarSystem" ->
            (IF settings.EVEUNIVERSE_LOAD_PLANETS THEN {} ELSE {"EvePlanet"})
            \cup (IF settings.EVEUNIVERSE_LOAD_STARGATES THEN {} ELSE {"EveStargate"})
            \cup (IF settings.EVEUNIVERSE_LOAD_STATIONS THEN {} ELSE {"EveStation"})
            \cup (IF settings.EVEUNIVERSE_LOAD_STARS THEN {} ELSE {"EveStar"})
      [] model = "EveType" ->
            (IF settings.EVEUNIVERSE_LOAD_GRAPHICS THEN {} ELSE {"EveGraphic"})
            \cup (IF settings.EVEUNIVERSE_LOAD_MARKET_GROUPS THEN {}
                  ELSE {"EveMarketGroup"})
            \cup (IF settings.EVEUNIVERSE_LOAD_DOGMAS THEN {}
                  ELSE {"EveTypeDogmaAttribute", "EveTypeDogmaEffect"})
      [] OTHER -> {}

(* the records of a table, entity or inline *)
Records(table) == IF table \in EntityModels THEN db[table] ELSE inl[table]

(* a job that would load a record of the table is waiting *)
Awaited(table) == \E job \in BagToSet(jobs) : job.model_name = table

ManagerCall == last.op \in {"update_or_create_esi", "get_or_create_esi"}

(* C15: a get_or_create_esi / update_or_create_esi call on a planet, a      *)
(* solar system or a type, with or without include_children,               *)
(* adds no record to a table whose load flag is off and submits no job     *)
(* for it: no moons or asteroid belts from planets, no planets, stargates, *)
(* stations or stars from solar systems, no graphics, market groups or     *)
(* dogma inline rows from types.                                           *)
C15_FlagsGate ==
    [][ManagerCall' =>
          \A table \in GatedOff(last'.model) :
              Records(table)' = Records(table) /\ ~Awaited(table)']_vars

(* the planet is loaded with its children while moons are off and all else *)
(* is on: the asteroid belt is stored, the moon is not                     *)
C15_Witness ==
    /\ ~settings.EVEUNIVERSE_LOAD_MOONS
    /\ settings.EVEUNIVERSE_LOAD_ASTEROID_BELTS
    /\ last.op = "update_or_create_esi"
    /\ last.model = "EvePlanet"
    /\ last.include_children /\ last.wait_for_children
    /\ last.err = NoError
    /\ 40349487 \in DOMAIN db["EveAsteroidBelt"]
    /\ DOMAIN db["EveMoon"] = {}

-----------------------------------------------------------------------------
(* Distances and routes *)

Query == last.op \in {"distance_to", "route_to", "jumps_to"}

(* an end of the last query has its id in 31000000..31999999 *)
WormholeQuery ==
    \/ last.origin \in 31000000..31999999
    \/ last.destination \in 31000000..31999999

(* C16: distance_to, route_to and jumps_to return None when the origin's   *)
(* or the destination's id lies in 31000000..31999999, whatever the        *)
(* positions, the stored stargates and the cached routes and edge sets.    *)
C16_WormholeExclusion ==
    Query /\ WormholeQuery => last.err = NoError /\ last.none

(* the jumps out of Thera are asked for while a stargate leads out of      *)
(* Thera, is in the cached edge set, and routes are cached                 *)
C16_Witness ==
    /\ last.op = "jumps_to"
    /\ last.origin = 31000005
    /\ last.none
    /\ 50000057 \in ConnectedGates
    /\ FALSE \in DOMAIN cache.edges
    /\ <<31000005, 30045339>> \in cache.edges[FALSE]
    /\ cache.routes # <<>>

(* a stored stargate with a destination joins the two solar systems *)
Joined(a, b) ==
    \E id \in DOMAIN db["EveStargate"] :
        /\ db["EveStargate"][id].destination_eve_solar_system # NULL
        /\ {db["EveStargate"][id].eve_solar_system,
            db["EveStargate"][id].destination_eve_solar_system} = {a, b}

HasGate(a) == \E b \in DOMAIN db["EveSolarSystem"] : Joined(a, b)

(* the solar systems one jump beyond the frontier *)
Beyond(frontier, seen) ==
    {b \in DOMAIN db["EveSolarSystem"] :
        b \notin seen /\ \E a \in frontier : Joined(a, b)}

RECURSIVE Bfs(_, _, _, _)

(* breadth-first search: the depth at which the target is met, NULL when   *)
(* the frontier runs empty                                                 *)
Bfs(frontier, seen, target, depth) ==
    IF target \in frontier THEN depth
    ELSE IF frontier = {} THEN NULL
    ELSE Bfs(Beyond(frontier, seen), seen \cup Beyond(frontier, seen), target, depth + 1)

(* the shortest-path length between two solar systems over the stored      *)
(* stargates, NULL without a path or when an end has no stargate           *)
BfsLength(origin, destination) ==
    IF ~HasGate(origin) \/ ~HasGate(destination) THEN NULL
    ELSE Bfs({origin}, {origin}, destination, 0)

(* what a query over all stargates returned agrees with the length *)
Shortest(asked, length) ==
    /\ asked.err = NoError
    /\ asked.none <=> length = NULL
    /\ asked.op = "jumps_to" /\ ~asked.none => asked.val = length
    /\ asked.op = "route_to" /\ ~asked.none
            => /\ Len(asked.val) = length + 1
               /\ asked.val[1] = asked.origin
               /\ asked.val[Len(asked.val)] = asked.destination

-----------------------------------------------------------------------------
(* The requested ids the endpoint resolves, those without a row before the *)
(* call, and the batches of a call: the sizes of its resolution calls.     *)

Resolvable(ids) == ids \cap DOMAIN esi["Universe.post_universe_names"]

Unknown(call) == call.ids \ DOMAIN call.before

Batches(call) ==
    [i \in 1..Cardinality(EventsOf(call.log, {"esi"})) |->
        call.log[CHOOSE k \in EventsOf(call.log, {"esi"}) :
                    Cardinality({j \in EventsOf(call.log, {"esi"}) : j <= k}) = i][3]]

RECURSIVE Sum(_, _)
Sum(sizes, i) == IF i > Len(sizes) THEN 0 ELSE sizes[i] + Sum(sizes, i + 1)

(* the row of id holds what the endpoint resolves id to *)
HoldsResolved(id) ==
    /\ id \in DOMAIN db["EveEntity"]
    /\ db["EveEntity"][id].name = ResolvedItem(id).name
    /\ db["EveEntity"][id].category = ResolvedItem(id).category

-----------------------------------------------------------------------------
(* The kind a category is promoted to by a plain get-or-create, and a      *)
(* promotion that left what the call r leaves and returned what it returns.*)

PendantKind(category) ==
    CASE category = Category.inventory_type -> "EveType"
      [] category = Category.region -> "EveRegion"
      [] category = Category.solar_system -> "EveSolarSystem"

SameAs(r) ==
    /\ last'.err = r.err
    /\ last'.obj = r.val
    /\ last'.created = r.created
    /\ last'.log = r.S.log
    /\ db' = r.S.db
    /\ inl' = r.S.inl
    /\ jobs' = r.S.jobs

(* C19: get_or_create_pendant_object of an entity whose category is none   *)
(* of alliance, character, corporation, inventory_type, region and         *)
(* solar_system (a null category included) raises NotImplementedError      *)
(* without a remote call and leaves the store and the job queue as they    *)
(* were; for inventory_type, region and solar_system it returns, and       *)
(* leaves, what get_or_create_esi on EveType, EveRegion and EveSolarSystem *)
(* with the entity's id does.                                              *)
C19_PendantPromotion ==
    [][last'.op = "get_or_create_pendant_object"
        => /\ last'.category \notin
                    {Category.alliance, Category.character, Category.corporation,
                     Category.inventory_type, Category.region, Category.solar_system}
                => /\ last'.err = "NotImplementedError"
                   /\ last'.log = <<>>
                   /\ UNCHANGED <<db, inl, jobs>>
           /\ last'.category \in {Category.inventory_type, Category.region,
                                  Category.solar_system}
                => SameAs(get_or_create_esi(Start, PendantKind(last'.category),
                                            last'.id, last'.include_children,
                                            last'.wait_for_children, MaxDepth))]_vars

(* solar system 30045339 is in the store, created by a promotion, and the  *)
(* promotion of an entity without a category has just been refused         *)
C19_Witness ==
    /\ last.op = "get_or_create_pendant_object"
    /\ last.category = NULL
    /\ last.err = "NotImplementedError"
    /\ 30045339 \in DOMAIN db["EveSolarSystem"]
    /\ 10000069 \in DOMAIN db["EveRegion"]

-----------------------------------------------------------------------------
(* The names of the services attached to a station. *)
ServiceNames(station) ==
    {inl["EveStationService"][inl["EveStation_services"][i].evestationservice_id].name :
        i \in {k \in 1..Len(inl["EveStation_services"]) :
                    inl["EveStation_services"][k].evestation_id = station}}

(* C20: whatever stations were upserted, and however their remote services *)
(* lists changed in between, no two EveStationService rows carry the same  *)
(* name, and the services attached to a station include every name of the  *)
(* services list the station had when it was last upserted.                *)
C20_SharedServices ==
    /\ \A i, j \in 1..Len(inl["EveStationService"]) :
            inl["EveStationService"][i].name = inl["EveStationService"][j].name => i = j
    /\ \A station \in DOMAIN last.payload :
            /\ station \in DOMAIN db["EveStation"]
            /\ \A k \in 1..Len(last.payload[station]) :
                    last.payload[station][k] \in ServiceNames(station)

(* both stations are stored, one of them upserted again after its services *)
(* list changed to [73]; the service 72 of both is one row, attached to    *)
(* both                                                                    *)
C20_Witness ==
    /\ DOMAIN last.payload = StationIds
    /\ last.payload[60015068] = <<73>>
    /\ last.payload[60015069] = <<72, 73>>
    /\ 72 \in ServiceNames(60015068) \cap ServiceNames(60015069)
    /\ Len(inl["EveStationService"]) = 3
    /\ Len(inl["EveStation_services"]) = 5

-----------------------------------------------------------------------------
RECURSIVE Descendants(_, _, _)

(* the children <<kind, id>> the loops of _update_or_create_children reach *)
(* from the record: those listed in what is fetched for it, and theirs,    *)
(* depth levels down                                                       *)
Descendants(model, id, depth) ==
    IF depth = 0 \/ _fetch_from_esi(Start, model, id).err # NoError THEN {}
    ELSE LET data == _fetch_from_esi(Start, model, id).val
             kids == children(model)
             listed == UNION {{<<kids[k][2], ChildId(kids[k][1], data[kids[k][1]][j])>> :
                                    j \in 1..Len(data[kids[k][1]])} :
                              k \in {k \in 1..Len(kids) : kids[k][1] \in DOMAIN data}}
         IN  listed \cup UNION {Descendants(c[1], c[2], depth - 1) : c \in listed}

(* C21: in a call of update_or_create_esi, get_or_create_esi or a deferred *)
(* job, a child is upserted or submitted only when the call asks for       *)
(* children, and then only a descendant of the call's own record: a record *)
(* created while a foreign key is resolved brings none of its children,    *)
(* whatever include_children the call was made with.                       *)
C21_RelatedWithoutChildren ==
    [][last'.op \in {"update_or_create_esi", "get_or_create_esi", "load_eve_object"}
        => \A i \in EventsOf(last'.log, {"child", "delay"}) :
                /\ last'.include_children
                /\ <<last'.log[i][2], last'.log[i][3]>>
                        \in Descendants(last'.model, last'.id, MaxDepth)]_vars

(* the planet was upserted with its children: its moon is stored, and so   *)
(* is its solar system, written by this call, whose stargate is listed and *)
(* enabled but neither stored nor waiting in the job queue                 *)
C21_Witness ==
    /\ last.op = "update_or_create_esi" /\ last.model = "EvePlanet"
    /\ last.include_children /\ last.err = NoError
    /\ SavesOf(last.log, "EveSolarSystem", 30045339) # {}
    /\ 40349468 \in DOMAIN db["EveMoon"]
    /\ <<"EveStargate", 50016284>> \in Descendants("EveSolarSystem", 30045339, 1)
    /\ db["EveStargate"] = <<>>
    /\ jobs = EmptyBag

-----------------------------------------------------------------------------
(* The solar system a stargate's remote object names as destination, and a *)
(* call that upserts a stargate: update_or_create_esi, a deferred job, or  *)
(* a get_or_create_esi that did not find it.                               *)
RemoteDestinationSystem(id) ==
    EsiValue(esi[esi_path_object("EveStargate")][id], <<"destination", "system_id">>)

StargateUpsert(call, before) ==
    /\ call.model = "EveStargate"
    /\ \/ call.op \in {"update_or_create_esi", "load_eve_object"}
       \/ call.op = "get_or_create_esi" /\ call.id \notin DOMAIN before

(* C22: an upsert of a stargate makes no remote call for the stargate or   *)
(* the solar system its remote object names as destination and creates     *)
(* neither; when it succeeds, destination_eve_stargate and                 *)
(* destination_eve_solar_system of the stargate hold the named id if that  *)
(* record was stored before the call and None otherwise.                   *)
C22_DontCreateRelated ==
    [][StargateUpsert(last', db["EveStargate"])
        => /\ \A i \in EventsOf(last'.log, {"esi"}) :
                /\ last'.log[i][2] = esi_path_object("EveStargate")
                        => last'.log[i][3] = last'.id
                /\ last'.log[i][2] = esi_path_object("EveSolarSystem")
                        => last'.log[i][3] # RemoteDestinationSystem(last'.id)
           /\ DOMAIN db'["EveStargate"] \subseteq DOMAIN db["EveStargate"] \cup {last'.id}
           /\ RemoteDestinationSystem(last'.id) \in DOMAIN db'["EveSolarSystem"]
                => RemoteDestinationSystem(last'.id) \in DOMAIN db["EveSolarSystem"]
           /\ last'.err = NoError
                => /\ db'["EveStargate"][last'.id].destination_eve_stargate =
                        IF RemoteDestination(last'.id) \in DOMAIN db["EveStargate"]
                        THEN RemoteDestination(last'.id) ELSE NULL
                   /\ db'["EveStargate"][last'.id].destination_eve_solar_system =
                        IF RemoteDestinationSystem(last'.id) \in DOMAIN db["EveSolarSystem"]
                        THEN RemoteDestinationSystem(last'.id) ELSE NULL]_vars

(* stargate 50016284 was upserted while the solar system of its            *)
(* destination was stored and the destination stargate was not: it names   *)
(* the solar system and no stargate, and the destination stargate is still *)
(* not stored                                                              *)
C22_Witness ==
    /\ last.op = "update_or_create_esi" /\ last.model = "EveStargate"
    /\ last.id = 50016284 /\ last.err = NoError
    /\ db["EveStargate"][50016284].destination_eve_stargate = NULL
    /\ db["EveStargate"][50016284].destination_eve_solar_system = 30045342
    /\ 50016283 \notin DOMAIN db["EveStargate"]

-----------------------------------------------------------------------------
(* What the fetch step of a call on the record yields: the remote object,  *)
(* or the exception of _fetch_from_esi / _handle_list_endpoints.           *)
Fetched(model, id) == _handle_list_endpoints(model, id, _fetch_from_esi(Start, model, id))

(* a call that reaches the fetch step of update_or_create_esi for its own  *)
(* record *)
FetchingCall(call, before) ==
    \/ call.op \in {"update_or_create_esi", "load_eve_object"}
    \/ call.op = "get_or_create_esi" /\ call.id \notin DOMAIN before[call.model]

(* C23: when the fetch step of update_or_create_esi fails for the call's   *)
(* record (the id is not in the list, the remote answers not found, or the *)
(* solar system's planets do not link the moon, asteroid belt or planet),  *)
(* the call raises that error and the tables and the job queue are what    *)
(* they were before the call.                                              *)
C23_FetchFailureLeavesStore ==
    [][(/\ FetchingCall(last', db)
        /\ Fetched(last'.model, last'.id).err # NoError)
        => /\ last'.err = Fetched(last'.model, last'.id).err
           /\ last'.err \in {"HTTPNotFound", "ValueError"}
           /\ UNCHANGED <<db, inl, jobs>>]_vars

(* moon 40349469 is listed by no planet: the upsert raised ValueError; the *)
(* store holds the other moon, edited locally, and a job is waiting        *)
C23_Witness ==
    /\ last.op = "update_or_create_esi" /\ last.model = "EveMoon"
    /\ last.id = 40349469 /\ last.err = "ValueError"
    /\ 40349469 \notin DOMAIN db["EveMoon"]
    /\ 40349468 \in DOMAIN db["EveMoon"] /\ db["EveMoon"][40349468].name = Dummy
    /\ jobs # EmptyBag

-----------------------------------------------------------------------------
(* Nothing is deleted *)

(* the (parent, functional key) pairs of the rows of an inline table *)
InlineKeys(table, model) ==
    {<<table[i][ParentFk(AllMappings[model]).field],
       table[i][OtherPk(AllMappings[model]).field]>> : i \in 1..Len(table)}

(* C24: no step of the engine deletes a record: the primary keys of every  *)
(* entity table and the (parent, functional key) pairs of every inline     *)
(* table only grow, also when the parent is upserted again from a payload  *)
(* that no longer lists a key.                                             *)
C24_NothingDeleted ==
    [][/\ \A model \in EntityModels : DOMAIN db[model] \subseteq DOMAIN db'[model]
       /\ \A model \in InlineModels :
            InlineKeys(inl[model], model) \subseteq InlineKeys(inl'[model], model)]_vars

(* type 603 was upserted again from the payload that no longer lists       *)
(* attribute 129: the row (603, 129) is still stored                       *)
C24_Witness ==
    /\ last.op = "update_or_create_esi"
    /\ last.model = "EveType" /\ last.id = 603
    /\ last.err = NoError /\ ~last.created
    /\ esi = TypeData2
    /\ \A e \in 1..Len(RemoteObject("EveType", 603).dogma_attributes) :
            RemoteObject("EveType", 603).dogma_attributes[e].attribute_id # 129
    /\ <<603, 129>> \in InlineKeys(inl["EveTypeDogmaAttribute"], "EveTypeDogmaAttribute")

-----------------------------------------------------------------------------
(* Cached routes *)

(* what a query returned is the path: None for the empty path, else the    *)
(* number of its jumps or the path itself                                  *)
ReturnedPath(asked, path) ==
    /\ asked.err = NoError
    /\ asked.none <=> path = <<>>
    /\ asked.op = "jumps_to" => asked.val = (IF path = <<>> THEN NULL ELSE Len(path) - 1)
    /\ asked.op = "route_to" => asked.val = path

(* the path is empty or leads from the origin to the destination over the  *)
(* edges                                                                   *)
PathOver(edges, path, origin, destination) ==
    \/ path = <<>>
    \/ /\ path[1] = origin
       /\ path[Len(path)] = destination
       /\ \A i \in 1..(Len(path) - 1) :
            <<path[i], path[i + 1]>> \in edges \/ <<path[i + 1], path[i]>> \in edges

(* the edge set a recomputation reads: the cached one of the flag, else    *)
(* the stored stargates with a destination                                 *)
EdgesRead(exclude_high_sec) ==
    IF exclude_high_sec \in DOMAIN cache.edges THEN cache.edges[exclude_high_sec]
    ELSE {<<db["EveStargate"][id].eve_solar_system,
            db["EveStargate"][id].destination_eve_solar_system>> :
            id \in {g \in DOMAIN db["EveStargate"] :
                        /\ db["EveStargate"][g].destination_eve_solar_system # NULL
                        /\ exclude_high_sec =>
                            \A end \in {db["EveStargate"][g].eve_solar_system,
                                         db["EveStargate"][g].destination_eve_solar_system} :
                                db["EveSolarSystem"][end].security_status < 5}}

(* a route_to or jumps_to query with the key has just returned *)
RouteQuery(asked, key) ==
    /\ asked.op \in {"route_to", "jumps_to"}
    /\ key = <<asked.origin, asked.destination, asked.exclude_high_sec>>

(* C25: a stored route stays as it is until it times out, whatever happens *)
(* to the stored stargates; a query whose (origin, destination,            *)
(* exclude_high_sec) has a stored route returns that route and computes    *)
(* nothing (the cache is left as it is); a query outside wormhole space    *)
(* without a stored route of its own three values computes a path over the *)
(* edge set of its flag and stores it under its own key only, whatever is  *)
(* stored for the opposite direction or the other flag.                    *)
C25_CachedRoute ==
    [][/\ \A key \in DOMAIN cache.routes :
            \/ key \in DOMAIN cache'.routes /\ cache'.routes[key] = cache.routes[key]
            \/ last'.op = "cache"
       /\ \A key \in RouteCalls :
            RouteQuery(last', key) =>
                IF key \in DOMAIN cache.routes
                THEN /\ ReturnedPath(last', cache.routes[key])
                     /\ cache' = cache
                ELSE IF key[1] \in 31000000..31999999 \/ key[2] \in 31000000..31999999
                THEN cache' = cache
                ELSE /\ DOMAIN cache'.routes = DOMAIN cache.routes \cup {key}
                     /\ ReturnedPath(last', cache'.routes[key])
                     /\ PathOver(EdgesRead(key[3]), cache'.routes[key], key[1], key[2])]_vars

(* the jumps from Enaluri to Jita are asked for again after the stargate   *)
(* to Jita has closed and the cached edge set has timed out: the stored    *)
(* two jumps are returned, and nothing is stored anew                      *)
C25_Witness ==
    /\ last.op = "jumps_to"
    /\ last.origin = 30045339 /\ last.destination = 30000142
    /\ ~last.exclude_high_sec
    /\ ~last.none /\ last.val = 2
    /\ 50000056 \notin ConnectedGates
    /\ FALSE \notin DOMAIN cache.edges
    /\ <<30045339, 30000142, FALSE>> \in DOMAIN cache.routes

-----------------------------------------------------------------------------
(* Security classes *)

(* the stored stargates with a destination neither of whose two solar      *)
(* systems is high-sec, as pairs of solar systems                          *)
JumpsOutsideHighSec ==
    {<<db["EveStargate"][id].eve_solar_system,
       db["EveStargate"][id].destination_eve_solar_system>> :
        id \in {g \in DOMAIN db["EveStargate"] :
                    /\ db["EveStargate"][g].destination_eve_solar_system # NULL
                    /\ db["EveSolarSystem"][db["EveStargate"][g].eve_solar_system]
                            .security_status <= 5
                    /\ db["EveSolarSystem"][
                            db["EveStargate"][g].destination_eve_solar_system]
                            .security_status <= 5}}

(* C26: a route computed with exclude_high_sec from an empty cache is      *)
(* computed over the graph whose edges are exactly the stargates with a    *)
(* destination neither of whose two solar systems has a security status    *)
(* above 0.5; a stargate between two solar systems at 0.5 is an edge.      *)
C26_HighSecThreshold ==
    [][/\ cache = EmptyCache
       /\ last'.op \in {"jumps_to", "route_to"}
       /\ last'.exclude_high_sec
       /\ TRUE \in DOMAIN cache'.edges
       => cache'.edges[TRUE] = JumpsOutsideHighSec]_vars

(* Enaluri and Akidagi, both at 0.5, are joined by a pair of stargates,    *)
(* and the route between them without high-sec was computed from an empty  *)
(* cache: there is none, and the edge set holds neither stargate           *)
C26_Witness ==
    /\ last.op = "jumps_to"
    /\ last.origin = 30045339 /\ last.destination = 30045342
    /\ last.exclude_high_sec
    /\ last.none
    /\ db["EveSolarSystem"][30045339].security_status = 5
    /\ db["EveSolarSystem"][30045342].security_status = 5
    /\ ~is_high_sec(db["EveSolarSystem"][30045339])
    /\ ~is_high_sec(db["EveSolarSystem"][30045342])
    /\ {50016284, 50016283} \subseteq ConnectedGates
    /\ DOMAIN cache.routes = {<<30045339, 30045342, TRUE>>}
    /\ cache.edges[TRUE] = {}

(* C27: of is_high_sec, is_low_sec, is_null_sec and is_w_space of a solar  *)
(* system exactly one is true, whatever its id and its security status.    *)
C27_ExactlyOneClass ==
    last.op = "classes" => Cardinality({i \in 1..4 : last.val[i]}) = 1

(* Thera, in wormhole space, has a security status of 0.3: it is low-sec   *)
(* and wormhole space at once                                              *)
C27_Witness ==
    /\ last.op = "classes"
    /\ last.origin = 31000005
    /\ db["EveSolarSystem"][31000005].security_status = 3
    /\ last.val = <<FALSE, TRUE, FALSE, TRUE>>

-----------------------------------------------------------------------------
(* Concurrent calls *)

BothDone == run.calls[1].pc = "done" /\ run.calls[2].pc = "done"

SameCall ==
    /\ run.calls[1].model = run.calls[2].model
    /\ run.calls[1].id = run.calls[2].id

(* every mapped field of the row with a remote value holds it: a plain     *)
(* field the value, a reference the id of a stored record (None for a      *)
(* reference that is never created when its record is not stored)          *)
HoldsRemote(row, model, data) ==
    \A i \in 1..Len(esi_mapping(model)) :
        LET m == esi_mapping(model)[i]
            v == EsiValue(data, m.esi_name)
        IN  (~m.is_pk /\ v # NULL)
                => IF ~m.is_fk THEN row[m.field] = v
                   ELSE IF m.create_related \/ v \in DOMAIN db[m.related_model]
                   THEN row[m.field] = v /\ v \in DOMAIN db[m.related_model]
                   ELSE row[m.field] = NULL

(* C28: when two update_or_create_esi calls for the same kind and id have  *)
(* both ended, under any interleaving of their fetch, resolve and write    *)
(* steps and with nothing else changing the remote data or the store, both *)
(* have returned, the record was inserted exactly once (by one of the two  *)
(* calls when it was not stored before, by none when it was), every mapped *)
(* field of it holds its remote value, and the store is the one the two    *)
(* calls leave when they run one after the other.                          *)
C28_ConcurrentUpsert ==
    (run.active /\ BothDone /\ SameCall)
        => /\ run.calls[1].err = NoError /\ run.calls[2].err = NoError
           /\ run.id \in DOMAIN db[run.model]
           /\ Cardinality({i \in 1..2 : run.calls[i].created})
                = (IF run.stored THEN 0 ELSE 1)
           /\ HoldsRemote(db[run.model][run.id], run.model, run.calls[1].data)
           /\ db = run.sync.db
           /\ inl = run.sync.inl

(* two calls for solar system 30045339, stored with a local edit, have     *)
(* both ended, and the second to fetch was the first to write              *)
C28_Witness ==
    /\ run.active /\ BothDone /\ SameCall
    /\ run.model = "EveSolarSystem"
    /\ run.stored
    /\ db["EveSolarSystem"][30045339].name # Dummy
    /\ last.op = "write"

(* C29: when the two calls for two stargates that name each other as       *)
(* destination have both ended, under any interleaving of their steps, the *)
(* two gates reference each other: each holds the other as destination     *)
(* stargate and the other's solar system as destination solar system.      *)
C29_ReciprocalGates ==
    (run.active /\ BothDone /\ ~SameCall)
        => /\ {50016284, 50016283} \subseteq DOMAIN db["EveStargate"]
           /\ db["EveStargate"][50016284].destination_eve_stargate = 50016283
           /\ db["EveStargate"][50016283].destination_eve_stargate = 50016284
           /\ db["EveStargate"][50016284].destination_eve_solar_system
                = db["EveStargate"][50016283].eve_solar_system
           /\ db["EveStargate"][50016283].destination_eve_solar_system
                = db["EveStargate"][50016284].eve_solar_system

(* both calls have returned, each compiled its defaults before the other   *)
(* wrote its gate, and neither gate has a destination                      *)
C29_Witness ==
    /\ run.active /\ BothDone /\ ~SameCall
    /\ run.calls[1].err = NoError /\ run.calls[2].err = NoError
    /\ {50016284, 50016283} \subseteq DOMAIN db["EveStargate"]
    /\ db["EveStargate"][50016284].destination_eve_stargate = NULL
    /\ db["EveStargate"][50016283].destination_eve_stargate = NULL
    /\ db["EveStargate"][50016284].destination_eve_solar_system = NULL
    /\ run.sync.db["EveStargate"][50016284].destination_eve_stargate = 50016283

-----------------------------------------------------------------------------
(* Termination *)

(* the number of objects the remote side has *)
RECURSIVE Objects(_)

Objects(paths) ==
    IF paths = {} THEN 0
    ELSE LET path == CHOOSE q \in paths : TRUE
         IN  Cardinality(DOMAIN esi[path]) + Objects(paths \ {path})

(* C30: over remote data whose only cyclic references are the two         *)
(* stargates that name each other, an update_or_create_esi or              *)
(* get_or_create_esi call that waits for its children ends, by returning   *)
(* or by raising, without exhausting the recursion limit: the nested       *)
(* upserts of related objects and of children of children stop, and the    *)
(* call makes at most two remote calls per object of the remote data.      *)
C30_Terminates ==
    [][(/\ last'.op \in {"update_or_create_esi", "get_or_create_esi"}
        /\ last'.wait_for_children)
        => /\ last'.err # "RecursionError"
           /\ Cardinality(EventsOf(last'.log, {"esi"})) <= 2 * Objects(DOMAIN esi)]_vars

(* the region was upserted with its children from an empty store: the      *)
(* constellation, its two solar systems and their stargates followed, nine *)
(* remote calls in all, and the two stargates name each other              *)
C30_Witness ==
    /\ last.op = "update_or_create_esi"
    /\ last.model = "EveRegion"
    /\ last.include_children /\ last.wait_for_children
    /\ last.err = NoError /\ last.created
    /\ db["EveStargate"][50016284].destination_eve_stargate = 50016283
    /\ db["EveStargate"][50016283].destination_eve_stargate = 50016284
    /\ Cardinality(EventsOf(last.log, {"esi"})) = 9

====
